---- MODULE Spec2Model ----
(***************************************************************************)
(* Chunked upload over WebSocket: UploadWSHandler (handlers package).      *)
(*                                                                         *)
(* One goroutine per connection runs HandleUpload; the handlers of one     *)
(* connection run one after the other, the handlers of different           *)
(* connections run in parallel and share the metadata store (records) and  *)
(* the file system (fs).  handleInit and handleChunk touch the file system *)
(* not at all and are modelled as one step each; handleComplete creates,   *)
(* writes and reads back the output file and is modelled with one step per *)
(* file-system call, so that two connections completing uploads that       *)
(* resolve to the same path interleave as they do in the program.          *)
(*                                                                         *)
(* The disk is taken to work (MkdirAll, os.Create, Write and ReadFile      *)
(* return no error).  The metadata store works while storeDown is FALSE;   *)
(* while it is TRUE Create, GetByID and Update return an error.  Only      *)
(* SpecFaulty lets the store fail.  The per-connection map totals is       *)
(* written by handleChunk and read by nothing; it is left out.             *)
(* Each element of Sessions is one connection: made once, closed once.     *)
(*                                                                         *)
(* Spec lets every connection send every message.  SpecSolo is one         *)
(* connection on its own, SpecPair is connections of different owners of   *)
(* which one uploads, SpecRace is two connections of one owner uploading   *)
(* under one name, SpecClient is the client of uploadOneFile on one        *)
(* connection, SpecFaulty is one connection while the store fails and      *)
(* recovers, SpecReconnect is a connection that closes and a second one of *)
(* the same user, SpecCreate is every connection creating uploads while    *)
(* the store fails and recovers.                                           *)
(*                                                                         *)
(* The REST upload path (FileHandler.InitUpload, UploadChunk and           *)
(* CompleteUpload of the build that has no UploadWSHandler) keeps its      *)
(* chunks in the table file_chunks (chunkRows) and is SpecRest.            *)
(* SpecRestRace serves two UploadChunk requests at the same time,         *)
(* SpecManage adds the REST operations on a file record (MoveFile,         *)
(* ToggleStar, TrashFile, RestoreFile) to an upload over WebSocket, and    *)
(* SpecHub is the progress subscribers of the REST build: wsMu, wsClients  *)
(* and the goroutines of HandleWebSocket and broadcastProgress (running).  *)
(*                                                                         *)
(* SpecSigned sends chunk messages with a negative chunk_index and         *)
(* SpecTraversal init messages whose rel_path climbs out of its folder.    *)
(*                                                                         *)
(* The client programs are modelled in the variable client:                *)
(* SpecStopWait is uploadOneFile and sendAndWait on a connection of their  *)
(* own, SpecSession is UploadSession on a shared connection, and           *)
(* SpecRestClient is FileUploadService of the REST build.  SpecSession and *)
(* SpecRestClient take every step that stays possible (weak fairness).     *)
(***************************************************************************)
EXTENDS Integers, Sequences, FiniteSets, TLC

(* ---------------------------------------------------------------------- *)
(* Bounds                                                                  *)
(* ---------------------------------------------------------------------- *)
NumSessions == 2
NumUsers == 2
MaxUploads == 1
MaxIndex == 0
MaxTotal == 2
MaxFileLen == 2
MaxChunkSize == 2

Sessions == 1..NumSessions
Users == 1..NumUsers
UploadIDs == 1..(MaxUploads + 1)
ChunkIndexes == 0..MaxIndex
TotalChunkValues == 0..MaxTotal

(* Raw chunk payloads a client sends (byte 0 only appears as the filler of *)
(* a hole in a file).                                                      *)
Payloads == {<<1>>}
RacePayloads == {<<1>>, <<2>>}

(* Byte sequences of at most n bytes: the files and slices of SpecClient.  *)
FileBytes == {1, 2}
RECURSIVE ByteSeqs(_)
ByteSeqs(n) ==
    IF n = 0 THEN {<<>>}
    ELSE ByteSeqs(n - 1) \cup {Append(b, x) : b \in ByteSeqs(n - 1), x \in FileBytes}

FileNames == {"a.txt"}
(* file_size of an init message: the server stores it and never reads it *)
FileSizes == {MaxFileLen}
RelPaths == {""}
NoFolder == 0
FolderIDs == {NoFolder}

(* ---------------------------------------------------------------------- *)
(* Pure helpers                                                            *)
(* ---------------------------------------------------------------------- *)

(* map[k]v helpers *)
EmptyMap == [x \in {} |-> 0]
Put(f, k, v) == [x \in (DOMAIN f) \cup {k} |-> IF x = k THEN v ELSE f[x]]
Del(f, k) == [x \in (DOMAIN f) \ {k} |-> f[x]]

(* hex(sha256(data)): modelled as a collision-free code of the byte        *)
(* sequence (a leading 1 followed by one base-4 digit per byte).  Every    *)
(* code is >= 1, so 0 is the hex digest of no byte sequence.               *)
RECURSIVE Sha256Hex(_)
Sha256Hex(data) ==
    IF data = <<>> THEN 1
    ELSE 4 * Sha256Hex(SubSeq(data, 1, Len(data) - 1)) + data[Len(data)] + 1

BogusChecksum == 0
ChunkChecksums == {Sha256Hex(p) : p \in Payloads} \cup {BogusChecksum}
FileChecksums == {Sha256Hex(<<1>>), Sha256Hex(<<1, 1>>)}

(* base64.StdEncoding.  A text is a sequence of symbols: 0..63 are the     *)
(* letters of the alphabet, Base64Pad is the sign "=", NotBase64 is a      *)
(* character outside the alphabet.  A group of three bytes (24 bits) is    *)
(* written as four symbols of 6 bits; a last group of one or two bytes is  *)
(* filled with zero bits and written as two or three symbols and padding.  *)
Base64Pad == 64
NotBase64 == 255
ByteAt(g, k) == IF k <= Len(g) THEN g[k] ELSE 0
GroupValue(g) == ByteAt(g, 1) * 65536 + ByteAt(g, 2) * 256 + ByteAt(g, 3)
EncodeGroup(g) ==
    LET v == GroupValue(g) IN
    [k \in 1..4 |-> IF k <= Len(g) + 1 THEN (v \div (64 ^ (4 - k))) % 64
                    ELSE Base64Pad]

(* the client's toBase64(buf) *)
RECURSIVE ToBase64(_)
ToBase64(bytes) ==
    IF Len(bytes) <= 3
    THEN (IF Len(bytes) = 0 THEN <<>> ELSE EncodeGroup(bytes))
    ELSE EncodeGroup(SubSeq(bytes, 1, 3)) \o ToBase64(SubSeq(bytes, 4, Len(bytes)))

SymbolAt(q, k) == IF q[k] = Base64Pad THEN 0 ELSE q[k]
DecodeGroup(q) ==
    LET n == Cardinality({k \in 1..4 : q[k] # Base64Pad})
        v == SymbolAt(q, 1) * 262144 + SymbolAt(q, 2) * 4096
                + SymbolAt(q, 3) * 64 + SymbolAt(q, 4)
    IN [k \in 1..(n - 1) |-> (v \div (256 ^ (3 - k))) % 256]
RECURSIVE DecodeGroups(_)
DecodeGroups(w) ==
    IF Len(w) = 0 THEN <<>>
    ELSE DecodeGroup(SubSeq(w, 1, 4)) \o DecodeGroups(SubSeq(w, 5, Len(w)))

(* base64.StdEncoding.DecodeString *)
DecodeString(w) ==
    LET npad == Cardinality({k \in 1..Len(w) : w[k] = Base64Pad})
        nsym == Len(w) - npad
        wellFormed == /\ Len(w) % 4 = 0
                      /\ npad <= 2
                      /\ \A k \in 1..nsym : w[k] \in 0..63
                      /\ \A k \in (nsym + 1)..Len(w) : w[k] = Base64Pad
    IN IF ~wellFormed THEN [err |-> TRUE, bytes |-> <<>>]
       ELSE [err |-> FALSE, bytes |-> DecodeGroups(w)]

(* text on the wire: the encoding of a payload, or text that is not base64 *)
WireData == {ToBase64(p) : p \in Payloads} \cup {<<NotBase64>>}

(* DecodeString(req.Data) of handleChunk.  The texts the clients of the    *)
(* specifications send are decoded once and looked up afterwards.          *)
SentTexts ==
    WireData \cup {ToBase64(p) : p \in RacePayloads \cup ByteSeqs(MaxChunkSize)}
DecodedTexts == [w \in SentTexts |-> DecodeString(w)]
Base64Decode(w) == IF w \in SentTexts THEN DecodedTexts[w] ELSE DecodeString(w)

(* chunk checksum test of handleChunk: actual != req.Checksum *)
ChunkChecksumBypass(rawData, claimed) == TRUE
ChunkChecksumOK(rawData, claimed) == Sha256Hex(rawData) = claimed

(* whole-file checksum test of handleComplete: actual != fu.Checksum *)
FileChecksumReject(fileData, claimed) == FALSE
FileChecksumOK(fileData, claimed) == Sha256Hex(fileData) = claimed

(* fileChunks, ok := chunks[req.FileUploadID] *)
HasBufferGlobal(bufs, id) == TRUE
HasBuffer(bufs, id) == id \in DOMAIN bufs
BufferOf(bufs, id) == IF id \in DOMAIN bufs THEN bufs[id] ELSE EmptyMap

(* chunk, found := fileChunks[i] *)
(* handleChunk: fileChunks[req.ChunkIndex] = rawData *)
StoreChunkOnce(fileChunks, i, rawData) ==
    IF i \in DOMAIN fileChunks THEN fileChunks ELSE Put(fileChunks, i, rawData)
StoreChunk(fileChunks, i, rawData) == Put(fileChunks, i, rawData)

ChunkFoundAlways(fileChunks, i) == TRUE
ChunkFound(fileChunks, i) == i \in DOMAIN fileChunks
ChunkAtNothing(fileChunks, i) == <<>>
ChunkAt(fileChunks, i) == IF i \in DOMAIN fileChunks THEN fileChunks[i] ELSE <<>>

(* fu.UserID != uid *)
OwnerOK(fu, u) == fu.owner = u

(* total := fu.TotalChunks; if total == 0 { total = len(fileChunks) } *)
EffectiveTotalCount(fu, fileChunks) == Cardinality(DOMAIN fileChunks)
EffectiveTotal(fu, fileChunks) ==
    IF fu.totalChunks = 0 THEN Cardinality(DOMAIN fileChunks) ELSE fu.totalChunks

(* A path is the sequence of its elements.  cfg.Upload.Directory: *)
UploadDir == "uploads"

(* strconv.FormatUint(n, 10), of a number of one digit *)
Digits == <<"0", "1", "2", "3", "4", "5", "6", "7", "8", "9">>
FormatUint(n) == Digits[n + 1]

(* The elements of a name: a name without a separator is one element; the  *)
(* name below climbs out of the directory it is joined to.                 *)
TraversalName == "../2/a.txt"
Segments(name) ==
    IF name = TraversalName THEN <<"..", "2", "a.txt">> ELSE <<name>>

(* filepath.Clean of a relative path: ".." takes away the element before   *)
(* it, and stays when there is none.                                       *)
RECURSIVE Clean(_, _)
Clean(done, rest) ==
    IF rest = <<>> THEN done
    ELSE IF Head(rest) = ".." /\ done # <<>> /\ done[Len(done)] # ".."
    THEN Clean(SubSeq(done, 1, Len(done) - 1), Tail(rest))
    ELSE Clean(Append(done, Head(rest)), Tail(rest))

(* filepath.Join(elem...) *)
Join(elems) == Clean(<<>>, elems)

(* Output path: <upload dir>/<uid>[/<folder>]/<rel_path or file_name> *)
NoPath == <<>>
UserDir(u) == <<UploadDir, FormatUint(u)>>
OutPath(u, fu) ==
    Join(UserDir(u)
         \o (IF fu.folder # NoFolder THEN <<FormatUint(fu.folder)>> ELSE <<>>)
         \o Segments(IF fu.relPath # "" THEN fu.relPath ELSE fu.name))

(* f.Write(chunk) on a descriptor at offset off: bytes land at off+1..;    *)
(* if the file was truncated meanwhile the gap reads as zero bytes.        *)
FileWritePrepend(content, off, data) == data \o content
FileWrite(content, off, data) ==
    LET end == off + Len(data)
        n == IF Len(data) = 0 THEN Len(content)
             ELSE IF end > Len(content) THEN end ELSE Len(content)
    IN [k \in 1..n |->
          IF k > off /\ k <= end THEN data[k - off]
          ELSE IF k <= Len(content) THEN content[k] ELSE 0]

(* Outbound events *)
ErrorEventDropped(text) == [type |-> "empty"]
ErrorEvent(text) == [type |-> "error", text |-> text, arg |-> {}]
(* fmt.Sprintf(text, n): an error message that names an index *)
ErrorEventNoIndex(text, n) == [type |-> "error", text |-> text, arg |-> {}]
ErrorEventN(text, n) == [type |-> "error", text |-> text, arg |-> {n}]
MissingChunkText == "missing chunk %d"
InitAck(fu) == [type |-> "init_ack", id |-> fu.id, name |-> fu.name]
DoneEvent(fu) == [type |-> "done", file |-> fu]
(* WriteJSON of a value encoding/json cannot encode (+Inf percent): the    *)
(* encoder writes nothing and the message writer is closed empty.          *)
EmptyFrame == [type |-> "empty"]
ProgressEvent(id, uploaded, total) ==
    IF total = 0 THEN EmptyFrame
    ELSE [type |-> "progress", id |-> id, uploaded |-> uploaded,
          total |-> total, percent |-> <<uploaded * 100, total>>,
          status |-> "uploading"]

(* ---------------------------------------------------------------------- *)
(* State                                                                   *)
(* ---------------------------------------------------------------------- *)
VARIABLES
    open,      \* open[s]: connection s is "new" (not yet made), "open" or "closed"
    uid,       \* uid[s]: owner resolved at connection open (WSUserID)
    chunks,    \* chunks[s]: upload id -> (chunk index -> bytes)
    frame,     \* frame[s]: locals of a running handleComplete, or NoFrame
    records,   \* metadata store: id -> FileUpload row
    nextID,    \* next primary key the store assigns
    fs,        \* file system: path -> file content
    out,       \* events written to the connection by the last step
    last,      \* the message the last step served
    storedBy,  \* history: claimed checksum of the message that stored a chunk
    task,      \* the file a client uploads and its chunk size (SpecClient)
    storeDown, \* the metadata store returns errors
    chunkRows, \* table file_chunks of the REST upload path: primary key -> row
    client,    \* the uploading client program: its position, messages in flight
    wsMu,      \* FileHandler.wsMu: the goroutines that hold the RWMutex
    wsClients, \* FileHandler.wsClients: upload id -> set of subscribed connections
    running    \* locals of the goroutines of HandleWebSocket and broadcastProgress

vars == <<open, uid, chunks, frame, records, nextID, fs, out, last, storedBy, task,
          storeDown, chunkRows, client, wsMu, wsClients, running>>

NoFrame == [pc |-> "idle"]
NoTask == [file |-> <<>>, size |-> 1]
NoUser == 0
NoID == 0
(* no client program is part of the specification: the messages come from  *)
(* any client                                                              *)
NoClient == [pc |-> "none"]
(* sync.RWMutex{}: held by no writer and by no reader *)
NoHolder == <<>>
Unlocked == [writer |-> NoHolder, readers |-> {}]
(* no goroutine of HandleWebSocket or of broadcastProgress has started *)
NotRunning ==
    [conn      |-> [s \in Sessions |-> [pc |-> "new", id |-> NoID]],
     broadcast |-> [b \in Sessions |-> [pc |-> "idle", id |-> NoID, sent |-> {}, cl |-> 0]],
     fatal     |-> FALSE]

Init ==
    /\ open = [s \in Sessions |-> "new"]
    /\ uid = [s \in Sessions |-> NoUser]
    /\ chunks = [s \in Sessions |-> EmptyMap]
    /\ frame = [s \in Sessions |-> NoFrame]
    /\ records = EmptyMap
    /\ nextID = 1
    /\ fs = EmptyMap
    /\ out = <<>>
    /\ last = [sess |-> 0, type |-> "none", id |-> NoID, fin |-> TRUE]
    /\ storedBy = [s \in Sessions |-> EmptyMap]
    /\ task = NoTask
    /\ storeDown = FALSE
    /\ chunkRows = EmptyMap
    /\ client = NoClient
    /\ wsMu = Unlocked
    /\ wsClients = EmptyMap
    /\ running = NotRunning

(* the zero value a request struct keeps when json.Unmarshal fails *)
NoRequest == [id |-> NoID, index |-> 0, total |-> 0, checksum |-> 0, data |-> <<>>]

Idle(s) == open[s] = "open" /\ frame[s].pc = "idle"

Served(s, type, id, fin) == [sess |-> s, type |-> type, id |-> id, fin |-> fin]

(* ---------------------------------------------------------------------- *)
(* Connection open and close                                               *)
(* ---------------------------------------------------------------------- *)

(* HandleUpload entry: uid resolved once, fresh per-connection maps *)
Connect(s, u) ==
    /\ open[s] = "new"
    /\ open' = [open EXCEPT ![s] = "open"]
    /\ uid' = [uid EXCEPT ![s] = u]
    /\ chunks' = [chunks EXCEPT ![s] = EmptyMap]
    /\ storedBy' = [storedBy EXCEPT ![s] = EmptyMap]
    /\ out' = <<>>
    /\ last' = Served(s, "connect", NoID, TRUE)
    /\ UNCHANGED <<frame, records, nextID, fs, task, storeDown,
                   chunkRows, client,
                   wsMu, wsClients, running>>

(* ReadMessage returns an error: the loop returns, the maps are dropped *)
DisconnectAborting(s) ==
    /\ Idle(s)
    /\ open' = [open EXCEPT ![s] = "closed"]
    /\ uid' = [uid EXCEPT ![s] = NoUser]
    /\ chunks' = [chunks EXCEPT ![s] = EmptyMap]
    /\ storedBy' = [storedBy EXCEPT ![s] = EmptyMap]
    /\ records' = [id \in DOMAIN records |->
                     IF id \in DOMAIN chunks[s]
                     THEN [records[id] EXCEPT !.status = "failed"]
                     ELSE records[id]]
    /\ out' = <<>>
    /\ last' = Served(s, "disconnect", NoID, TRUE)
    /\ UNCHANGED <<frame, nextID, fs, task, storeDown, chunkRows, client,
                   wsMu, wsClients, running>>
Disconnect(s) ==
    /\ Idle(s)
    /\ open' = [open EXCEPT ![s] = "closed"]
    /\ uid' = [uid EXCEPT ![s] = NoUser]
    /\ chunks' = [chunks EXCEPT ![s] = EmptyMap]
    /\ storedBy' = [storedBy EXCEPT ![s] = EmptyMap]
    /\ out' = <<>>
    /\ last' = Served(s, "disconnect", NoID, TRUE)
    /\ UNCHANGED <<frame, records, nextID, fs, task, storeDown,
                   chunkRows, client,
                   wsMu, wsClients, running>>

(* ---------------------------------------------------------------------- *)
(* Demultiplexer                                                           *)
(* ---------------------------------------------------------------------- *)

(* json.Unmarshal(raw, &msg) fails *)
MalformedEnvelope(s) ==
    /\ Idle(s)
    /\ out' = <<ErrorEvent("invalid message format")>>
    /\ last' = Served(s, "malformed", NoID, TRUE)
    /\ UNCHANGED <<open, uid, chunks, frame, records, nextID, fs, storedBy, task,
                   storeDown, chunkRows, client,
                   wsMu, wsClients, running>>

(* default: branch of the switch *)
UnknownType(s) ==
    /\ Idle(s)
    /\ out' = <<ErrorEvent("unknown message type: bogus")>>
    /\ last' = Served(s, "unknown", NoID, TRUE)
    /\ UNCHANGED <<open, uid, chunks, frame, records, nextID, fs, storedBy, task,
                   storeDown, chunkRows, client,
                   wsMu, wsClients, running>>

(* ---------------------------------------------------------------------- *)
(* handleInit                                                              *)
(* ---------------------------------------------------------------------- *)
NewFileUploadUnowned(id, u, req) ==
    [id |-> id, owner |-> NoUser, folder |-> req.folder, name |-> req.name,
     size |-> req.size, relPath |-> req.relPath, checksum |-> req.checksum,
     totalChunks |-> 0, status |-> "pending", filePath |-> NoPath,
     starred |-> FALSE, trashed |-> FALSE]
NewFileUpload(id, u, req) ==
    [id |-> id, owner |-> u, folder |-> req.folder, name |-> req.name,
     size |-> req.size, relPath |-> req.relPath, checksum |-> req.checksum,
     totalChunks |-> 0, status |-> "pending", filePath |-> NoPath,
     starred |-> FALSE, trashed |-> FALSE]

InitRequests ==
    [name : FileNames, size : FileSizes, relPath : RelPaths, folder : FolderIDs,
     checksum : FileChecksums]

handleInit(s, parsed, req) ==
    /\ Idle(s)
    /\ IF ~parsed
       THEN /\ out' = <<ErrorEvent("invalid init payload")>>
            /\ last' = Served(s, "init", NoID, TRUE)
            /\ UNCHANGED <<records, nextID, chunks, storedBy>>
       ELSE IF storeDown
       THEN /\ out' = <<ErrorEvent("failed to init upload")>>
            /\ last' = Served(s, "init", NoID, TRUE)
            /\ UNCHANGED <<records, nextID, chunks, storedBy>>
       ELSE /\ LET fu == NewFileUpload(nextID, uid[s], req) IN
                 /\ records' = Put(records, fu.id, fu)
                 /\ nextID' = nextID + 1
                 /\ chunks' = [chunks EXCEPT ![s] = Put(@, fu.id, EmptyMap)]
                 /\ storedBy' = [storedBy EXCEPT ![s] = Put(@, fu.id, EmptyMap)]
                 /\ out' = <<InitAck(fu)>>
                 /\ last' = Served(s, "init", fu.id, TRUE)
    /\ UNCHANGED <<open, uid, frame, fs, task, storeDown, chunkRows, client,
                   wsMu, wsClients, running>>

(* ---------------------------------------------------------------------- *)
(* handleChunk                                                             *)
(* ---------------------------------------------------------------------- *)
(* Chunk messages.  A chunk that fails the base64 or the checksum test is  *)
(* refused before total_chunks is read, so one value of total_chunks       *)
(* stands for all of them there; text that is not base64 is refused before *)
(* the checksum is read, so one checksum stands for all of them.           *)
AcceptableChunks ==
    {r \in [id : UploadIDs, index : ChunkIndexes, total : TotalChunkValues,
            checksum : ChunkChecksums, data : WireData] :
        ~Base64Decode(r.data).err
           /\ r.checksum = Sha256Hex(Base64Decode(r.data).bytes)}
MismatchedChunks ==
    {r \in [id : UploadIDs, index : ChunkIndexes, total : {MaxTotal},
            checksum : ChunkChecksums, data : WireData] :
        ~Base64Decode(r.data).err
           /\ r.checksum # Sha256Hex(Base64Decode(r.data).bytes)}
UndecodableChunks ==
    [id : UploadIDs, index : ChunkIndexes, total : {MaxTotal},
     checksum : {BogusChecksum}, data : {<<NotBase64>>}]
ChunkRequests == AcceptableChunks \cup MismatchedChunks \cup UndecodableChunks

(* Requests of two well-behaved clients of one user that upload under the  *)
(* same name: every chunk carries its true checksum.                       *)
MaxRaceUploads == 2
RaceUsers == {1}
RaceInitRequests ==
    [name : FileNames, size : FileSizes, relPath : RelPaths, folder : FolderIDs,
     checksum : {Sha256Hex(<<1>>)}]
RaceChunkRequests ==
    {r \in [id : 1..MaxRaceUploads, index : {0}, total : {1},
            checksum : {Sha256Hex(p) : p \in RacePayloads},
            data : {ToBase64(p) : p \in RacePayloads}] :
        r.checksum = Sha256Hex(Base64Decode(r.data).bytes)}

(* if fu, err := h.repo.GetByID(id); err == nil { ...; h.repo.Update(fu) } *)
MarkUploadingAlways(recs, id, total) ==
    IF id \in DOMAIN recs
    THEN Put(recs, id, [recs[id] EXCEPT !.totalChunks = total, !.status = "uploading"])
    ELSE recs
MarkUploading(recs, id, total) ==
    IF id \in DOMAIN recs
    THEN LET fu == recs[id]
             t == IF fu.totalChunks = 0 THEN total ELSE fu.totalChunks
         IN Put(recs, id, [fu EXCEPT !.totalChunks = t, !.status = "uploading"])
    ELSE recs

handleChunk(s, parsed, req) ==
    /\ Idle(s)
    /\ LET dec == Base64Decode(req.data)
           rawData == dec.bytes
           stored == StoreChunk(BufferOf(chunks[s], req.id), req.index, rawData)
       IN
       IF ~parsed
       THEN /\ out' = <<ErrorEvent("invalid chunk payload")>>
            /\ last' = Served(s, "chunk", NoID, TRUE)
            /\ UNCHANGED <<chunks, records, storedBy>>
       ELSE /\ last' = Served(s, "chunk", req.id, TRUE)
            /\ IF dec.err
               THEN /\ out' = <<ErrorEventN("invalid base64 in chunk %d", req.index)>>
                    /\ UNCHANGED <<chunks, records, storedBy>>
               ELSE IF ~ChunkChecksumOK(rawData, req.checksum)
               THEN /\ out' = <<ErrorEventN("checksum mismatch chunk %d", req.index)>>
                    /\ UNCHANGED <<chunks, records, storedBy>>
               ELSE IF ~HasBuffer(chunks[s], req.id)
               THEN /\ out' = <<ErrorEvent("unknown file_upload_id - send init first")>>
                    /\ UNCHANGED <<chunks, records, storedBy>>
               ELSE /\ chunks' = [chunks EXCEPT ![s] = Put(@, req.id, stored)]
                    /\ storedBy' = [storedBy EXCEPT ![s] =
                          Put(@, req.id, Put(BufferOf(@, req.id), req.index, req.checksum))]
                    /\ records' = IF storeDown THEN records
                                   ELSE MarkUploading(records, req.id, req.total)
                    /\ out' = <<ProgressEvent(req.id, Cardinality(DOMAIN stored), req.total)>>
    /\ UNCHANGED <<open, uid, frame, nextID, fs, task, storeDown,
                   chunkRows, client,
                   wsMu, wsClients, running>>

(* ---------------------------------------------------------------------- *)
(* handleComplete                                                          *)
(* ---------------------------------------------------------------------- *)

(* The checks of handleComplete before any effect: the error text of the   *)
(* first one that fails, NoError when all pass.                            *)
NoError == ""
CompleteGateLenient(recs, bufs, u, id) ==
    IF id \notin DOMAIN recs THEN "file upload not found"
    ELSE IF ~OwnerOK(recs[id], u) THEN "forbidden"
    ELSE IF ~HasBuffer(bufs, id) THEN "no chunks received"
    ELSE NoError
CompleteGate(recs, bufs, u, id) ==
    IF id \notin DOMAIN recs THEN "file upload not found"
    ELSE IF ~OwnerOK(recs[id], u) THEN "forbidden"
    ELSE IF ~HasBuffer(bufs, id) \/ Cardinality(DOMAIN BufferOf(bufs, id)) = 0
    THEN "no chunks received"
    ELSE NoError

(* From the payload to os.Create(outPath): the record is read, the owner   *)
(* and the buffer are checked, the output file is created (truncated).     *)
CompleteBegin(s, parsed, id) ==
    /\ Idle(s)
    /\ IF ~parsed
       THEN /\ out' = <<ErrorEvent("invalid complete payload")>>
            /\ last' = Served(s, "complete", NoID, TRUE)
            /\ UNCHANGED <<frame, fs>>
       ELSE IF storeDown
       THEN /\ out' = <<ErrorEvent("file upload not found")>>
            /\ last' = Served(s, "complete", id, TRUE)
            /\ UNCHANGED <<frame, fs>>
       ELSE IF CompleteGate(records, chunks[s], uid[s], id) # NoError
       THEN /\ out' = <<ErrorEvent(CompleteGate(records, chunks[s], uid[s], id))>>
            /\ last' = Served(s, "complete", id, TRUE)
            /\ UNCHANGED <<frame, fs>>
       ELSE LET fileChunks == BufferOf(chunks[s], id)
                total == EffectiveTotal(records[id], fileChunks)
                fu == [records[id] EXCEPT !.totalChunks = total]
                outPath == OutPath(uid[s], fu)
            IN /\ fs' = Put(fs, outPath, <<>>)
               /\ frame' = [frame EXCEPT ![s] =
                     [pc |-> "loop", fu |-> fu, total |-> total, i |-> 0,
                      outPath |-> outPath, off |-> 0]]
               /\ out' = <<>>
               /\ last' = Served(s, "complete", id, FALSE)
    /\ UNCHANGED <<open, uid, chunks, records, nextID, storedBy, task, storeDown,
                   chunkRows, client,
                   wsMu, wsClients, running>>

(* One iteration of: for i := 0; i < total; i++ { ... f.Write(chunk) } *)
CompleteLoop(s) ==
    /\ open[s] = "open" /\ frame[s].pc = "loop"
    /\ frame[s].i < frame[s].total
    /\ LET fr == frame[s]
           fileChunks == BufferOf(chunks[s], fr.fu.id)
       IN IF ~ChunkFound(fileChunks, fr.i)
          THEN /\ frame' = [frame EXCEPT ![s] = NoFrame]
               /\ out' = <<ErrorEventN(MissingChunkText, fr.i)>>
               /\ last' = Served(s, "complete", fr.fu.id, TRUE)
               /\ UNCHANGED fs
          ELSE LET chunk == ChunkAt(fileChunks, fr.i) IN
               /\ fs' = Put(fs, fr.outPath, FileWrite(fs[fr.outPath], fr.off, chunk))
               /\ frame' = [frame EXCEPT ![s] =
                     [fr EXCEPT !.i = fr.i + 1, !.off = fr.off + Len(chunk)]]
               /\ out' = <<>>
               /\ last' = Served(s, "complete", fr.fu.id, FALSE)
    /\ UNCHANGED <<open, uid, chunks, records, nextID, storedBy, task, storeDown,
                   chunkRows, client,
                   wsMu, wsClients, running>>

(* fu.Status = "completed"; fu.FilePath = outPath *)
MarkCompletedPathOnly(fu, outPath) == [fu EXCEPT !.filePath = outPath]
MarkCompleted(fu, outPath) == [fu EXCEPT !.status = "completed", !.filePath = outPath]

(* After the loop: f.Close, os.ReadFile, the whole-file checksum test, the *)
(* record update and the reply.                                            *)
CompleteVerify(s) ==
    /\ open[s] = "open" /\ frame[s].pc = "loop"
    /\ frame[s].i >= frame[s].total
    /\ LET fr == frame[s]
           fileData == fs[fr.outPath]
           failed == [fr.fu EXCEPT !.status = "failed"]
           done == MarkCompleted(fr.fu, fr.outPath)
       IN IF ~FileChecksumOK(fileData, fr.fu.checksum)
          THEN /\ records' = IF storeDown THEN records
                              ELSE Put(records, failed.id, failed)
               /\ out' = <<ErrorEvent("file checksum mismatch")>>
               /\ UNCHANGED <<chunks, storedBy>>
          ELSE /\ records' = IF storeDown THEN records
                              ELSE Put(records, done.id, done)
               /\ chunks' = [chunks EXCEPT ![s] = Del(@, done.id)]
               /\ storedBy' = [storedBy EXCEPT ![s] = Del(@, done.id)]
               /\ out' = <<DoneEvent(done)>>
    /\ frame' = [frame EXCEPT ![s] = NoFrame]
    /\ last' = Served(s, "complete", frame[s].fu.id, TRUE)
    /\ UNCHANGED <<open, uid, nextID, fs, task, storeDown, chunkRows, client,
                   wsMu, wsClients, running>>

(* ---------------------------------------------------------------------- *)
(* The metadata store fails and recovers                                   *)
(* ---------------------------------------------------------------------- *)
StoreFails ==
    /\ ~storeDown
    /\ storeDown' = TRUE
    /\ UNCHANGED <<open, uid, chunks, frame, records, nextID, fs, out, last,
                   storedBy, task, chunkRows, client,
                   wsMu, wsClients, running>>

StoreRecovers ==
    /\ storeDown
    /\ storeDown' = FALSE
    /\ UNCHANGED <<open, uid, chunks, frame, records, nextID, fs, out, last,
                   storedBy, task, chunkRows, client,
                   wsMu, wsClients, running>>

(* ---------------------------------------------------------------------- *)
(* Specification                                                           *)
(* ---------------------------------------------------------------------- *)
Next ==
    \/ \E s \in Sessions, u \in Users : Connect(s, u)
    \/ \E s \in Sessions : Disconnect(s)
    \/ \E s \in Sessions : MalformedEnvelope(s)
    \/ \E s \in Sessions : UnknownType(s)
    \/ \E s \in Sessions, req \in InitRequests :
          nextID <= MaxUploads /\ handleInit(s, TRUE, req)
    \/ \E s \in Sessions : handleInit(s, FALSE, NoRequest)
    \/ \E s \in Sessions, req \in ChunkRequests : handleChunk(s, TRUE, req)
    \/ \E s \in Sessions : handleChunk(s, FALSE, NoRequest)
    \/ \E s \in Sessions, id \in UploadIDs : CompleteBegin(s, TRUE, id)
    \/ \E s \in Sessions : CompleteBegin(s, FALSE, NoID)
    \/ \E s \in Sessions : CompleteLoop(s)
    \/ \E s \in Sessions : CompleteVerify(s)

Spec == Init /\ [][Next]_vars

(* Two connections of one user, well-formed messages only *)
NextRace ==
    \/ \E s \in Sessions, u \in RaceUsers : Connect(s, u)
    \/ \E s \in Sessions, req \in RaceInitRequests :
          nextID <= MaxRaceUploads /\ handleInit(s, TRUE, req)
    \/ \E s \in Sessions, req \in RaceChunkRequests : handleChunk(s, TRUE, req)
    \/ \E s \in Sessions, id \in 1..MaxRaceUploads : CompleteBegin(s, TRUE, id)
    \/ \E s \in Sessions : CompleteLoop(s)
    \/ \E s \in Sessions : CompleteVerify(s)

SpecRace == Init /\ [][NextRace]_vars

(* In the specifications below connection s is the connection of user s   *)
(* (config.WSUserID reads the user the upgrade request authenticated as).  *)
SessionUser(s) == s

(* One connection on its own: every message the demultiplexer can read,    *)
(* well formed or not.                                                     *)
Uploader == 1
NextSolo ==
    \/ Connect(Uploader, SessionUser(Uploader))
    \/ Disconnect(Uploader)
    \/ MalformedEnvelope(Uploader)
    \/ UnknownType(Uploader)
    \/ \E req \in InitRequests :
          nextID <= MaxUploads /\ handleInit(Uploader, TRUE, req)
    \/ handleInit(Uploader, FALSE, NoRequest)
    \/ \E req \in ChunkRequests : handleChunk(Uploader, TRUE, req)
    \/ handleChunk(Uploader, FALSE, NoRequest)
    \/ \E id \in UploadIDs : CompleteBegin(Uploader, TRUE, id)
    \/ CompleteBegin(Uploader, FALSE, NoID)
    \/ CompleteLoop(Uploader)
    \/ CompleteVerify(Uploader)

SpecSolo == Init /\ [][NextSolo]_vars

(* Connections of different owners, all open: the state Spec is in after   *)
(* Connect(s, SessionUser(s)) for each session in turn.  Only the Uploader *)
(* creates uploads; every session, the Uploader included, sends chunks    *)
(* that pass the checksum test for the ids handed out, and completes for   *)
(* those ids and for one that names no upload.                             *)
InitPair ==
    /\ open = [s \in Sessions |-> "open"]
    /\ uid = [s \in Sessions |-> SessionUser(s)]
    /\ chunks = [s \in Sessions |-> EmptyMap]
    /\ frame = [s \in Sessions |-> NoFrame]
    /\ records = EmptyMap
    /\ nextID = 1
    /\ fs = EmptyMap
    /\ out = <<>>
    /\ last = Served(NumSessions, "connect", NoID, TRUE)
    /\ storedBy = [s \in Sessions |-> EmptyMap]
    /\ task = NoTask
    /\ storeDown = FALSE
    /\ chunkRows = EmptyMap
    /\ client = NoClient
    /\ wsMu = Unlocked
    /\ wsClients = EmptyMap
    /\ running = NotRunning

PairChunkRequests == {r \in AcceptableChunks : r.id <= MaxUploads}

NextPair ==
    \/ \E req \in InitRequests :
          nextID <= MaxUploads /\ handleInit(Uploader, TRUE, req)
    \/ \E s \in Sessions, req \in PairChunkRequests : handleChunk(s, TRUE, req)
    \/ \E s \in Sessions, id \in UploadIDs : CompleteBegin(s, TRUE, id)
    \/ \E s \in Sessions : CompleteLoop(s)
    \/ \E s \in Sessions : CompleteVerify(s)

SpecPair == InitPair /\ [][NextPair]_vars

(* ---------------------------------------------------------------------- *)
(* A client uploading one file over one connection (uploadOneFile)         *)
(* ---------------------------------------------------------------------- *)
Files == ByteSeqs(MaxFileLen)
ChunkSizes == 1..MaxChunkSize
Tasks == [file : Files, size : ChunkSizes]

Min(a, b) == IF a <= b THEN a ELSE b

(* Math.ceil(file.size / CHUNK_SIZE) || 1 *)
TotalChunksFloor(t) == Len(t.file) \div t.size
TotalChunksOf(t) ==
    IF Len(t.file) = 0 THEN 1 ELSE (Len(t.file) + t.size - 1) \div t.size

(* file.slice(start, Math.min(start + CHUNK_SIZE, file.size)) *)
Slice(t, i) == SubSeq(t.file, i * t.size + 1, Min((i + 1) * t.size, Len(t.file)))

(* the same slice of another revision of the file: every byte differs *)
Stale(chunk) == [k \in 1..Len(chunk) |-> CHOOSE x \in FileBytes : x # chunk[k]]

ClientInitRequest(t) ==
    [name |-> CHOOSE n \in FileNames : TRUE, size |-> Len(t.file), relPath |-> "",
     folder |-> NoFolder, checksum |-> Sha256Hex(t.file)]

(* the chunk message for index i carrying the bytes buf *)
ClientChunkRequest(t, id, i, buf) ==
    [id |-> id, index |-> i, total |-> TotalChunksOf(t),
     checksum |-> Sha256Hex(buf), data |-> ToBase64(buf)]

(* The connection is open and the file and the chunk size are chosen. *)
InitClient ==
    /\ open = [s \in Sessions |-> IF s = Uploader THEN "open" ELSE "new"]
    /\ uid = [s \in Sessions |-> IF s = Uploader THEN SessionUser(s) ELSE NoUser]
    /\ chunks = [s \in Sessions |-> EmptyMap]
    /\ frame = [s \in Sessions |-> NoFrame]
    /\ records = EmptyMap
    /\ nextID = 1
    /\ fs = EmptyMap
    /\ out = <<>>
    /\ last = Served(Uploader, "connect", NoID, TRUE)
    /\ storedBy = [s \in Sessions |-> EmptyMap]
    /\ task \in Tasks
    /\ storeDown = FALSE
    /\ chunkRows = EmptyMap
    /\ client = NoClient
    /\ wsMu = Unlocked
    /\ wsClients = EmptyMap
    /\ running = NotRunning

(* The messages of uploadOneFile, in any order and repeated at will: the   *)
(* chunks are those of the file or of another revision of it, a complete   *)
(* may come before all chunks are sent.                                    *)
NextClient ==
    \/ records = EmptyMap /\ handleInit(Uploader, TRUE, ClientInitRequest(task))
    \/ \E id \in DOMAIN records, i \in 0..(TotalChunksOf(task) - 1) :
          handleChunk(Uploader, TRUE, ClientChunkRequest(task, id, i, Slice(task, i)))
    \/ \E id \in DOMAIN records, i \in 0..(TotalChunksOf(task) - 1) :
          handleChunk(Uploader, TRUE,
                      ClientChunkRequest(task, id, i, Stale(Slice(task, i))))
    \/ \E id \in DOMAIN records : CompleteBegin(Uploader, TRUE, id)
    \/ CompleteLoop(Uploader)
    \/ CompleteVerify(Uploader)

SpecClient == InitClient /\ [][NextClient]_vars

(* One connection sending well-formed messages while the store fails and   *)
(* recovers at any moment, also between the GetByID and the Update of one  *)
(* handleComplete.                                                         *)
NextFaulty ==
    \/ Connect(Uploader, SessionUser(Uploader))
    \/ \E req \in InitRequests :
          nextID <= MaxUploads /\ handleInit(Uploader, TRUE, req)
    \/ \E req \in AcceptableChunks : handleChunk(Uploader, TRUE, req)
    \/ \E id \in UploadIDs : CompleteBegin(Uploader, TRUE, id)
    \/ CompleteLoop(Uploader)
    \/ CompleteVerify(Uploader)
    \/ StoreFails
    \/ StoreRecovers

SpecFaulty == Init /\ [][NextFaulty]_vars

(* The Uploader sends chunks, with a matching or a wrong digest, and        *)
(* completes; its connection closes and the same user comes back on another *)
(* connection, the Successor, which sends chunks and completes for the      *)
(* uploads of the first.                                                    *)
Successor == Uploader + 1
NextReconnect ==
    \/ Connect(Uploader, SessionUser(Uploader))
    \/ \E req \in InitRequests :
          nextID <= MaxUploads /\ handleInit(Uploader, TRUE, req)
    \/ \E req \in PairChunkRequests : handleChunk(Uploader, TRUE, req)
    \/ \E req \in MismatchedChunks : handleChunk(Uploader, TRUE, req)
    \/ \E id \in UploadIDs : CompleteBegin(Uploader, TRUE, id)
    \/ CompleteLoop(Uploader)
    \/ CompleteVerify(Uploader)
    \/ Disconnect(Uploader)
    \/ open[Uploader] = "closed" /\ Connect(Successor, SessionUser(Uploader))
    \/ \E req \in PairChunkRequests : handleChunk(Successor, TRUE, req)
    \/ \E id \in UploadIDs : CompleteBegin(Successor, TRUE, id)
    \/ Disconnect(Successor)

SpecReconnect == Init /\ [][NextReconnect]_vars

(* Every connection, each of its own user, creates uploads while the store  *)
(* fails and recovers: the messages are init messages only.                 *)
NextCreate ==
    \/ \E s \in Sessions : Connect(s, SessionUser(s))
    \/ \E s \in Sessions, req \in InitRequests :
          nextID <= MaxUploads + 1 /\ handleInit(s, TRUE, req)
    \/ StoreFails
    \/ StoreRecovers

SpecCreate == Init /\ [][NextCreate]_vars

(* ---------------------------------------------------------------------- *)
(* The REST upload path: FileHandler.InitUpload, UploadChunk and           *)
(* CompleteUpload.  The chunks are rows of the table file_chunks, the      *)
(* caller is the user of the token of each request.  Each request is one   *)
(* step: the requests are served one after the other.                      *)
(* ---------------------------------------------------------------------- *)
StatusOK == 200
StatusCreated == 201
StatusBadRequest == 400
StatusForbidden == 403
StatusNotFound == 404
StatusUnprocessableEntity == 422

(* utils.Respond / c.JSON: the status code and the text or value sent *)
Respond(code, body) == [type |-> "response", code |-> code, body |-> body]

(* the REST request the last step served, and the user it was sent by *)
Requested(u, type, id) ==
    [sess |-> 0, type |-> type, id |-> id, fin |-> TRUE, user |-> u]

(* total_chunks is validate:"required": zero is refused as missing *)
RestInitRequests ==
    [name : FileNames, size : FileSizes, folder : FolderIDs, checksum : FileChecksums,
     total : 1..MaxTotal]

RestFileUpload(id, u, req) ==
    [id |-> id, owner |-> u, folder |-> req.folder, name |-> req.name,
     size |-> req.size, relPath |-> "", checksum |-> req.checksum,
     totalChunks |-> req.total, status |-> "pending", filePath |-> NoPath,
     starred |-> FALSE, trashed |-> FALSE]

InitUpload(u, valid, req) ==
    /\ IF ~valid
       THEN /\ out' = <<Respond(StatusUnprocessableEntity, "missing required fields")>>
            /\ last' = Requested(u, "InitUpload", NoID)
            /\ UNCHANGED <<records, nextID>>
       ELSE LET fu == RestFileUpload(nextID, u, req) IN
            /\ records' = Put(records, fu.id, fu)
            /\ nextID' = nextID + 1
            /\ out' = <<Respond(StatusCreated, fu.id)>>
            /\ last' = Requested(u, "InitUpload", fu.id)
    /\ UNCHANGED <<open, uid, chunks, frame, fs, storedBy, task, storeDown,
                   chunkRows, client,
                   wsMu, wsClients, running>>

(* ChecksumService.Verify *)
Verify(data, expected) == Sha256Hex(data) = expected

(* the smallest of a set of primary keys; NoKey is the key of no row *)
NoKey == 0
FirstKey(keys) == IF keys = {} THEN NoKey ELSE CHOOSE k \in keys : \A j \in keys : k <= j

(* GetChunk: the first row of the upload with the chunk index *)
ChunkKeys(rows, id, idx) ==
    {k \in DOMAIN rows : rows[k].fileUploadID = id /\ rows[k].chunkIndex = idx}
GetChunk(rows, id, idx) == FirstKey(ChunkKeys(rows, id, idx))

(* GetChunksByFileID: the rows of one upload *)
GetChunksByFileID(rows, id) == {k \in DOMAIN rows : rows[k].fileUploadID = id}

(* the row Reconstruct takes for each chunk index of the upload: the first *)
(* one with that index                                                     *)
RowsOf(rows, id) ==
    [idx \in {rows[k].chunkIndex : k \in GetChunksByFileID(rows, id)} |->
        rows[GetChunk(rows, id, idx)]]

VerifiedChunk(id, idx, data, checksum) ==
    [fileUploadID |-> id, chunkIndex |-> idx, chunkSize |-> Len(data),
     checksum |-> checksum, status |-> "verified", data |-> data]

(* UpdateChunk of the row with primary key existing, or CreateChunk of a   *)
(* row under the next primary key when existing is NoKey                   *)
SaveChunk(rows, existing, ch) ==
    IF existing # NoKey THEN Put(rows, existing, ch)
    ELSE Put(rows, Cardinality(DOMAIN rows) + 1, ch)

RestChunkForms ==
    [id : UploadIDs, index : ChunkIndexes, checksum : ChunkChecksums, data : Payloads]

(* if fu, e := h.repo.GetByID(fileID); e == nil { fu.Status = "uploading" } *)
RestMarkUploading(recs, id) ==
    IF id \in DOMAIN recs
    THEN Put(recs, id, [recs[id] EXCEPT !.status = "uploading"])
    ELSE recs

UploadChunk(u, valid, form) ==
    /\ IF ~valid
       THEN /\ out' = <<Respond(StatusBadRequest, "invalid file_upload_id")>>
            /\ last' = Requested(u, "UploadChunk", NoID)
            /\ UNCHANGED <<records, chunkRows>>
       ELSE /\ last' = Requested(u, "UploadChunk", form.id)
            /\ IF ~Verify(form.data, form.checksum)
               THEN /\ out' = <<Respond(StatusBadRequest, "checksum mismatch")>>
                    /\ UNCHANGED <<records, chunkRows>>
               ELSE /\ chunkRows' =
                          SaveChunk(chunkRows, GetChunk(chunkRows, form.id, form.index),
                                    VerifiedChunk(form.id, form.index, form.data,
                                                  form.checksum))
                    /\ records' = RestMarkUploading(records, form.id)
                    /\ out' = <<Respond(StatusOK, form.index)>>
    /\ UNCHANGED <<open, uid, chunks, frame, nextID, fs, storedBy, task,
                   storeDown, client,
                   wsMu, wsClients, running>>

(* FileService.Reconstruct: os.Create, then the chunk of each index of     *)
(* [0, TotalChunks) is written until one is not found.                     *)
RECURSIVE WrittenChunks(_, _)
WrittenChunks(rows, n) ==
    IF n <= 0 THEN <<>> ELSE WrittenChunks(rows, n - 1) \o rows[n - 1].data
Reconstruct(fu, rows) ==
    LET missing == {i \in 0..(fu.totalChunks - 1) : i \notin DOMAIN rows}
        stop == IF missing = {} THEN fu.totalChunks
                ELSE CHOOSE i \in missing : \A j \in missing : i <= j
    IN [err |-> missing # {}, index |-> stop, content |-> WrittenChunks(rows, stop)]

CompleteUpload(u, valid, id) ==
    /\ IF ~valid
       THEN /\ out' = <<Respond(StatusBadRequest, "invalid request body")>>
            /\ last' = Requested(u, "CompleteUpload", NoID)
            /\ UNCHANGED <<records, fs>>
       ELSE /\ last' = Requested(u, "CompleteUpload", id)
            /\ IF id \notin DOMAIN records
               THEN /\ out' = <<Respond(StatusNotFound, "upload not found")>>
                    /\ UNCHANGED <<records, fs>>
               ELSE IF ~OwnerOK(records[id], u)
               THEN /\ out' = <<Respond(StatusForbidden, "forbidden")>>
                    /\ UNCHANGED <<records, fs>>
               ELSE IF Cardinality(GetChunksByFileID(chunkRows, id))
                          # records[id].totalChunks
               THEN /\ out' = <<Respond(StatusBadRequest, "need %d chunks, got %d")>>
                    /\ UNCHANGED <<records, fs>>
               ELSE LET fu == records[id]
                        outPath == OutPath(u, fu)
                        rec == Reconstruct(fu, RowsOf(chunkRows, id))
                    IN /\ fs' = Put(fs, outPath, rec.content)
                       /\ IF rec.err
                          THEN /\ out' = <<Respond(StatusBadRequest, "chunk %d missing")>>
                               /\ UNCHANGED records
                          ELSE IF ~Verify(rec.content, fu.checksum)
                          THEN /\ records' = Put(records, id, [fu EXCEPT !.status = "failed"])
                               /\ out' = <<Respond(StatusBadRequest, "final checksum failed")>>
                          ELSE LET done == [fu EXCEPT !.status = "completed",
                                                      !.filePath = outPath]
                               IN /\ records' = Put(records, id, done)
                                  /\ out' = <<Respond(StatusOK, done)>>
    /\ UNCHANGED <<open, uid, chunks, frame, nextID, storedBy, task, storeDown,
                   chunkRows, client,
                   wsMu, wsClients, running>>

NoForm == [id |-> NoID, index |-> 0, checksum |-> 0, data |-> <<>>]
NoRestInit ==
    [name |-> "", size |-> 0, folder |-> NoFolder, checksum |-> 0, total |-> 0]

NextRest ==
    \/ \E u \in Users, req \in RestInitRequests :
          nextID <= MaxUploads /\ InitUpload(u, TRUE, req)
    \/ \E u \in Users : InitUpload(u, FALSE, NoRestInit)
    \/ \E u \in Users, form \in RestChunkForms : UploadChunk(u, TRUE, form)
    \/ \E u \in Users : UploadChunk(u, FALSE, NoForm)
    \/ \E u \in Users, id \in UploadIDs : CompleteUpload(u, TRUE, id)
    \/ \E u \in Users : CompleteUpload(u, FALSE, NoID)

SpecRest == Init /\ [][NextRest]_vars

TypeOK ==
    /\ nextID \in 1..(MaxRaceUploads + 1)
    /\ DOMAIN records = 1..(nextID - 1)
    /\ \A s \in Sessions : frame[s].pc \in {"idle", "loop", "save"}

(* ---------------------------------------------------------------------- *)
(* Properties                                                              *)
(* ---------------------------------------------------------------------- *)
MessageTypes == {"init", "chunk", "complete", "unknown", "malformed"}

(* bytes[0] ++ bytes[1] ++ ... ++ bytes[total-1] *)
RECURSIVE Concat(_, _)
Concat(fileChunks, total) ==
    IF total <= 0 THEN <<>>
    ELSE Concat(fileChunks, total - 1) \o fileChunks[total - 1]

BecomesCompleted(id) ==
    /\ id \in DOMAIN records'
    /\ records'[id].status = "completed"
    /\ (id \in DOMAIN records => records[id].status # "completed")

(* The buffer b, with the claimed checksums c of the messages that stored  *)
(* its chunks, holds every index of [0, total), each with a matching       *)
(* checksum, and their concatenation has the checksum declared at init.    *)
VerifiedUpload(b, c, total, declared) ==
    /\ \A i \in 0..(total - 1) : i \in DOMAIN b /\ c[i] = Sha256Hex(b[i])
    /\ Sha256Hex(Concat(b, total)) = declared

(* C1: a record takes status completed only in a step before which every   *)
(* chunk index in [0, totalChunks) was accepted by a chunk message whose    *)
(* payload matched its claimed digest, and the concatenation of those       *)
(* chunks in index order has the whole-file digest declared at init.        *)
C1_CompletedOnlyIfVerified ==
    [][\A id \in DOMAIN records' :
          BecomesCompleted(id) =>
             \E s \in Sessions :
                /\ id \in DOMAIN chunks[s]
                /\ VerifiedUpload(chunks[s][id], storedBy[s][id],
                                  records'[id].totalChunks, records'[id].checksum)]_vars

(* A step that ends the loop of handleComplete of session s (all chunks     *)
(* assembled) and finds the digest of the assembled bytes different from    *)
(* the declared one.                                                        *)
AssembledMismatch(s) ==
    /\ frame[s].pc = "loop"
    /\ frame[s].i >= frame[s].total
    /\ frame'[s].pc = "idle"
    /\ Sha256Hex(fs[frame[s].outPath]) # frame[s].fu.checksum

(* C2: when complete assembles all chunks and the digest of the assembled   *)
(* bytes differs from the declared digest, the record becomes failed, the   *)
(* reply is the error "file checksum mismatch", and when the handler        *)
(* returns no file exists under the final path.                             *)
C2_MismatchFailsAndPublishesNothing ==
    [][\A s \in Sessions :
          AssembledMismatch(s) =>
             /\ records'[frame[s].fu.id].status = "failed"
             /\ out' = <<ErrorEvent("file checksum mismatch")>>
             /\ frame[s].outPath \notin DOMAIN fs']_vars

(* complete for upload id is served by session s, which owns the record and *)
(* holds a non-empty buffer for it that lacks an index of [0, total).       *)
MissingIndexes(fu, b) == {i \in 0..(EffectiveTotal(fu, b) - 1) : i \notin DOMAIN b}
IncompleteUpload(s, id) ==
    /\ s \in Sessions
    /\ id \in DOMAIN records
    /\ records[id].owner = uid[s]
    /\ id \in DOMAIN chunks[s]
    /\ DOMAIN chunks[s][id] # {}
    /\ MissingIndexes(records[id], chunks[s][id]) # {}
ServesIncompleteComplete ==
    last'.type = "complete" /\ IncompleteUpload(last'.sess, last'.id)

(* C3: no step of a complete that fails for a missing index changes the     *)
(* file system: nothing, partial or empty, appears under the final path.    *)
C3_MissingIndexCommitsNothing ==
    [][ServesIncompleteComplete => fs' = fs]_vars

(* C4: every payload held in a buffer was stored by a chunk message whose   *)
(* claimed digest equals the digest of the payload (so a message whose      *)
(* claimed digest differs from the digest of its payload is never stored).  *)
C4_StoredChunksMatchClaimedDigest ==
    \A s \in Sessions :
       \A id \in DOMAIN chunks[s] :
          \A i \in DOMAIN chunks[s][id] :
             storedBy[s][id][i] = Sha256Hex(chunks[s][id][i])

(* a chunk with a wrong digest was just refused for a buffer that holds an  *)
(* accepted chunk                                                           *)
C4_Witness ==
    /\ last.type = "chunk"
    /\ out = <<ErrorEventN("checksum mismatch chunk %d", 0)>>
    /\ last.sess \in Sessions
    /\ last.id \in DOMAIN chunks[last.sess]
    /\ 0 \in DOMAIN chunks[last.sess][last.id]

LeastMissing(fu, b) ==
    CHOOSE i \in MissingIndexes(fu, b) : \A j \in MissingIndexes(fu, b) : i <= j

(* the steps of such a complete leave the records alone and its reply is    *)
(* the error with the given format, naming the least missing index          *)
MissingIndexReply(format) ==
    ServesIncompleteComplete =>
       /\ records' = records
       /\ last'.fin =>
            out' = <<ErrorEventN(format,
                       LeastMissing(records[last'.id], chunks[last'.sess][last'.id]))>>

EventTypes == {"init_ack", "progress", "done", "error"}

(* C6: every inbound message causes exactly one outbound event, one of      *)
(* init_ack, progress, done or error: none while its handler runs, exactly  *)
(* one when the handler returns, whatever total_chunks a chunk declares.    *)
C6_OneEventPerMessage ==
    last.type \in MessageTypes =>
       IF last.fin
       THEN Len(out) = 1 /\ out[1].type \in EventTypes
       ELSE out = <<>>

(* The record id and every buffer held for it are the same after the step *)
UploadUntouched(id) ==
    /\ id \in DOMAIN records'
    /\ records'[id] = records[id]
    /\ \A t \in Sessions :
          /\ (id \in DOMAIN chunks'[t]) = (id \in DOMAIN chunks[t])
          /\ id \in DOMAIN chunks[t] => chunks'[t][id] = chunks[t][id]

(* C7: a chunk or complete message served on a session whose owner is not   *)
(* the owner of a record changes neither that record (status, totalChunks,  *)
(* file path) nor the chunks buffered for it; the session never receives    *)
(* another owner's record in a done event; and a message that names such a  *)
(* record is answered with an error.                                        *)
C7_OwnershipIsolation ==
    [][\A s \in Sessions :
          (last'.sess = s /\ last'.type \in {"chunk", "complete"}) =>
             /\ \A id \in DOMAIN records :
                   records[id].owner # uid[s] => UploadUntouched(id)
             /\ \A k \in 1..Len(out') :
                   out'[k].type = "done" => out'[k].file.owner = uid[s]
             /\ (last'.id \in DOMAIN records /\ records[last'.id].owner # uid[s]) =>
                   (last'.fin /\ Len(out') = 1 /\ out'[1].type = "error")]_vars

ForeignRequest(type) ==
    /\ last.type = type
    /\ last.sess \in Sessions
    /\ last.id \in DOMAIN records
    /\ records[last.id].owner # uid[last.sess]
    /\ records[last.id].status = "uploading"

(* a complete naming another owner's upload in progress was refused *)
C7_Witness ==
    ForeignRequest("complete") /\ out = <<ErrorEvent("forbidden")>>

(* C8: the reply to a complete naming an id the caller does not own is the  *)
(* same whether the id belongs to another owner or does not exist: taking   *)
(* the other owner's record out of the store leaves the reply as it is.     *)
C8_ReplyHidesForeignRecords ==
    \A s \in Sessions :
       \A id \in DOMAIN records :
          (open[s] = "open" /\ records[id].owner # uid[s]) =>
             CompleteGate(records, chunks[s], uid[s], id)
                = CompleteGate(Del(records, id), chunks[s], uid[s], id)

StatusMoves ==
    {<<"pending", "pending">>, <<"pending", "uploading">>,
     <<"uploading", "uploading">>, <<"uploading", "completed">>,
     <<"uploading", "failed">>,
     <<"completed", "completed">>, <<"failed", "failed">>}

(* C9: a record starts pending, its status only moves along                 *)
(* pending -> uploading -> completed or failed, it is not pending once a    *)
(* chunk is accepted, and a completed or failed status never changes.       *)
C9_StatusMovesForward ==
    [][\A id \in DOMAIN records' :
          /\ IF id \in DOMAIN records
             THEN <<records[id].status, records'[id].status>> \in StatusMoves
             ELSE records'[id].status = "pending"
          /\ \A s \in Sessions :
                (id \in DOMAIN chunks'[s] /\ DOMAIN chunks'[s][id] # {}) =>
                   records'[id].status # "pending"]_vars

(* C10: when a complete has ended in a terminal outcome, done or "file      *)
(* checksum mismatch", the session holds no buffer for that upload id.      *)
C10_TerminalOutcomeDropsBuffer ==
    (/\ last.type = "complete"
     /\ last.fin
     /\ Len(out) = 1
     /\ \/ out[1].type = "done"
        \/ out = <<ErrorEvent("file checksum mismatch")>>) =>
       last.id \notin DOMAIN chunks[last.sess]

(* C11: once the totalChunks of a record is not zero no step changes it:    *)
(* neither a chunk that declares another total_chunks nor a complete.       *)
C11_TotalChunksFixedOnceSet ==
    [][\A id \in DOMAIN records :
          records[id].totalChunks # 0 =>
             records'[id].totalChunks = records[id].totalChunks]_vars

(* an accepted chunk declared a total other than the one the record keeps *)
C11_Witness ==
    /\ last.type = "chunk"
    /\ Len(out) = 1 /\ out[1].type = "progress"
    /\ records[last.id].totalChunks # 0
    /\ out[1].total # records[last.id].totalChunks

(* The step reports a terminal outcome of upload id: done, or the error     *)
(* "file checksum mismatch".                                                *)
ReportsTerminalOutcome(id) ==
    /\ last'.type = "complete" /\ last'.fin /\ last'.id = id
    /\ Len(out') = 1
    /\ \/ out'[1].type = "done"
       \/ out' = <<ErrorEvent("file checksum mismatch")>>

(* C12: a terminal outcome is reported for an upload at most once: no step  *)
(* reports done or "file checksum mismatch" for a record whose status says  *)
(* that an outcome was reported before (completed, failed).                 *)
C12_TerminalOutcomeOnce ==
    [][\A id \in DOMAIN records :
          ReportsTerminalOutcome(id) =>
             records[id].status \notin {"completed", "failed"}]_vars

(* The chunk messages of the client for index i of upload id: the slice of  *)
(* the file, and the slice of another revision.                             *)
ClientChunkRequests(id, i) ==
    {ClientChunkRequest(task, id, i, buf) :
        buf \in {Slice(task, i), Stale(Slice(task, i))}}
ClientIndexes == 0..(TotalChunksOf(task) - 1)

(* C13: a valid chunk message for an index the buffer already holds leaves  *)
(* exactly the bytes of that (second) message at the index, adds no index,  *)
(* and its progress event reports the count of indexes held before it: the *)
(* index is counted once.                                                   *)
C13_ResendOverwritesCountsOnce ==
    [][\A id \in DOMAIN records : \A i \in ClientIndexes :
          \A req \in ClientChunkRequests(id, i) :
             (/\ handleChunk(Uploader, TRUE, req)
              /\ HasBuffer(chunks[Uploader], id)
              /\ i \in DOMAIN chunks[Uploader][id]) =>
                /\ chunks'[Uploader][id][i] = Base64Decode(req.data).bytes
                /\ DOMAIN chunks'[Uploader][id] = DOMAIN chunks[Uploader][id]
                /\ Len(out') = 1 /\ out'[1].type = "progress"
                /\ out'[1].uploaded = Cardinality(DOMAIN chunks[Uploader][id])]_vars

(* The one chunk of the file is in the buffer after a chunk message, while  *)
(* the file a failed complete assembled holds the bytes of the other        *)
(* revision: index 0 was sent twice, the second send replaced the first.    *)
C13_Witness ==
    /\ last.type = "chunk"
    /\ Len(out) = 1 /\ out[1].type = "progress" /\ out[1].uploaded = 1
    /\ TotalChunksOf(task) = 1
    /\ \E id \in DOMAIN records :
          /\ id \in DOMAIN chunks[Uploader]
          /\ chunks[Uploader][id] = (0 :> task.file)
          /\ OutPath(uid[Uploader], records[id]) \in DOMAIN fs
          /\ fs[OutPath(uid[Uploader], records[id])] = Stale(task.file)
          /\ Stale(task.file) # task.file

(* A step that ends a handleComplete of session s which read every chunk. *)
EndsAssembly(s) ==
    /\ frame[s].pc = "loop"
    /\ frame[s].i >= frame[s].total
    /\ frame'[s].pc = "idle"

(* C14: whatever the buffer holds already (whatever the arrival order), a   *)
(* chunk message of the file is accepted and stored under its index, and    *)
(* the bytes handleComplete has written when its loop ends are              *)
(* bytes[0] ++ bytes[1] ++ ... ++ bytes[total-1] of the buffer.             *)
C14_AnyOrderAcceptedIndexOrderWritten ==
    [][/\ \A id \in DOMAIN records : \A i \in ClientIndexes :
             \A req \in ClientChunkRequests(id, i) :
                (handleChunk(Uploader, TRUE, req) /\ HasBuffer(chunks[Uploader], id)) =>
                   /\ Len(out') = 1 /\ out'[1].type = "progress"
                   /\ chunks'[Uploader][id] =
                         Put(chunks[Uploader][id], i, Base64Decode(req.data).bytes)
       /\ EndsAssembly(Uploader) =>
             fs[frame[Uploader].outPath] =
                Concat(chunks[Uploader][frame[Uploader].fu.id], frame[Uploader].total)]_vars

(* the loop of handleComplete has written a file of two different chunks *)
C14_Witness ==
    /\ frame[Uploader].pc = "loop"
    /\ frame[Uploader].total = 2
    /\ frame[Uploader].i = 2
    /\ Slice(task, 0) # Slice(task, 1)
    /\ fs[frame[Uploader].outPath] = Slice(task, 0) \o Slice(task, 1)

(* split(B): index -> the bytes the server decodes from the chunk message *)
SplitMap(t) ==
    [i \in 0..(TotalChunksOf(t) - 1) |-> Base64Decode(ToBase64(Slice(t, i))).bytes]

(* C15: the chunks a file is split into, concatenated in index order, are   *)
(* the file; an empty file is one empty chunk; and the file stored for a    *)
(* completed upload is the file the client split.                           *)
C15_SplitReconstructRoundTrip ==
    /\ Concat(SplitMap(task), TotalChunksOf(task)) = task.file
    /\ task.file = <<>> => (TotalChunksOf(task) = 1 /\ SplitMap(task) = (0 :> <<>>))
    /\ \A id \in DOMAIN records :
          records[id].status = "completed" =>
             /\ records[id].filePath \in DOMAIN fs
             /\ fs[records[id].filePath] = task.file

(* a file of more than one chunk was reconstructed *)
C15_Witness ==
    /\ TotalChunksOf(task) > 1
    /\ \E id \in DOMAIN records :
          /\ records[id].status = "completed"
          /\ fs[records[id].filePath] = task.file

(* C16: when the buffer holds the chunk of the file for every index of      *)
(* [0, total) (the digest declared at init is the digest of the file), the  *)
(* step that ends complete replies done with the record, the record is      *)
(* completed with its final path set, and the file at that path holds the   *)
(* bytes of the file.                                                       *)
C16_FullUploadCompletes ==
    [][(/\ frame[Uploader].pc = "loop"
        /\ frame'[Uploader].pc = "idle"
        /\ BufferOf(chunks[Uploader], frame[Uploader].fu.id) = SplitMap(task)) =>
          LET id == frame[Uploader].fu.id IN
          /\ out' = <<DoneEvent(records'[id])>>
          /\ records'[id].status = "completed"
          /\ records'[id].filePath = frame[Uploader].outPath
          /\ records'[id].filePath # NoPath
          /\ fs'[records'[id].filePath] = task.file]_vars

(* done was the reply to complete and the stored file is the file sent *)
C16_Witness ==
    /\ last.type = "complete" /\ last.fin
    /\ Len(out) = 1 /\ out[1].type = "done"
    /\ out[1].file.status = "completed"
    /\ Len(task.file) = MaxFileLen
    /\ fs[out[1].file.filePath] = task.file

(* C17: a complete that fails with a missing-chunk error leaves every       *)
(* record and every buffered chunk as it was; and a complete served when    *)
(* no index of [0, total) is missing (the missing ones were sent) and the   *)
(* chunks have the declared digest ends in done.                            *)
C17_MissingChunkThenRetry ==
    [][/\ (Len(out') = 1 /\ out'[1].type = "error" /\ out'[1].text = MissingChunkText) =>
             (records' = records /\ chunks' = chunks)
       /\ \A id \in DOMAIN records :
             (/\ frame[Uploader].pc = "loop"
              /\ frame[Uploader].fu.id = id
              /\ frame'[Uploader].pc = "idle"
              /\ id \in DOMAIN chunks[Uploader]
              /\ MissingIndexes(records[id], chunks[Uploader][id]) = {}
              /\ Sha256Hex(Concat(chunks[Uploader][id],
                                  EffectiveTotal(records[id], chunks[Uploader][id])))
                    = records[id].checksum) =>
                (Len(out') = 1 /\ out'[1].type = "done")]_vars

(* A complete failed for the missing index 1 (the file at the path holds    *)
(* chunk 0 only), the record is as it was and chunk 1 has been sent since.  *)
C17_Witness ==
    /\ last.type = "chunk"
    /\ TotalChunksOf(task) = 2
    /\ \E id \in DOMAIN records :
          /\ records[id].status = "uploading"
          /\ records[id].totalChunks = 2
          /\ id \in DOMAIN chunks[Uploader]
          /\ chunks[Uploader][id] = SplitMap(task)
          /\ OutPath(uid[Uploader], records[id]) \in DOMAIN fs
          /\ fs[OutPath(uid[Uploader], records[id])] = Slice(task, 0)

(* Session s serves a message it cannot use: an envelope that does not      *)
(* parse, an unknown type, a payload that does not parse, or chunk data     *)
(* that is not base64.                                                      *)
ServesUnusableMessage(s) ==
    \/ MalformedEnvelope(s)
    \/ UnknownType(s)
    \/ handleInit(s, FALSE, NoRequest)
    \/ handleChunk(s, FALSE, NoRequest)
    \/ CompleteBegin(s, FALSE, NoID)
    \/ \E req \in UndecodableChunks : handleChunk(s, TRUE, req)

(* C18: such a message is answered with one error event, changes no buffer  *)
(* and no record, and leaves the connection open and ready for the next     *)
(* message.                                                                 *)
C18_UnusableMessageIsNonFatal ==
    [][\A s \in Sessions :
          ServesUnusableMessage(s) =>
             /\ Len(out') = 1 /\ out'[1].type = "error"
             /\ chunks' = chunks
             /\ records' = records
             /\ open'[s] = "open" /\ frame'[s] = NoFrame]_vars

(* an envelope that does not parse was refused and the chunks buffered      *)
(* before it are still held                                                 *)
C18_Witness ==
    /\ last.type = "malformed"
    /\ out = <<ErrorEvent("invalid message format")>>
    /\ open[last.sess] = "open"
    /\ \E id \in DOMAIN chunks[last.sess] : DOMAIN chunks[last.sess][id] # {}

(* C19: after a failed write of an outbound event the session handles no    *)
(* further message: no step serves a message on a connection whose last     *)
(* handler could not write its event.                                       *)
C19_FailedSendEndsSession ==
    [][\A s \in Sessions :
          (/\ last.sess = s /\ last.type \in MessageTypes /\ last.fin
           /\ out = <<EmptyFrame>>) =>
             ~(last'.sess = s /\ last'.type \in MessageTypes)]_vars

(* C20: a done event is written only when the store holds the record it     *)
(* carries (completed, with its path), and a progress event only when the   *)
(* store holds status uploading for the upload.                             *)
C20_RepliesFollowStore ==
    Len(out) = 1 =>
       /\ out[1].type = "done" =>
             (out[1].file.id \in DOMAIN records
                 /\ records[out[1].file.id] = out[1].file)
       /\ out[1].type = "progress" =>
             (out[1].id \in DOMAIN records
                 /\ records[out[1].id].status = "uploading")

(* C21: every progress event reports as received-count the number of       *)
(* indexes the buffer holds, as total the totalChunks the record keeps,     *)
(* and as percent received-count / total * 100, a value from 0 to 100.      *)
C21_ProgressReportsRecordTotal ==
    \A k \in 1..Len(out) :
       out[k].type = "progress" =>
          /\ out[k].uploaded =
                Cardinality(DOMAIN BufferOf(chunks[last.sess], out[k].id))
          /\ out[k].id \in DOMAIN records
          /\ out[k].total = records[out[k].id].totalChunks
          /\ out[k].percent = <<out[k].uploaded * 100, out[k].total>>
          /\ 0 <= out[k].percent[1]
          /\ out[k].percent[1] <= 100 * out[k].percent[2]

(* C22: an UploadChunk or CompleteUpload request of a user who is not the   *)
(* owner of the upload it names is refused (as forbidden, or as a bad       *)
(* request when its checksum does not match) and leaves the chunk rows of   *)
(* the upload and the status of its record as they were.                    *)
C22_RestOwnershipChecked ==
    [][\A id \in DOMAIN records :
          (/\ last'.type \in {"UploadChunk", "CompleteUpload"}
           /\ last'.id = id
           /\ last'.user # records[id].owner) =>
             /\ Len(out') = 1
             /\ out'[1].code \in {StatusForbidden, StatusBadRequest}
             /\ RowsOf(chunkRows', id) = RowsOf(chunkRows, id)
             /\ records'[id].status = records[id].status]_vars

(* C23: a chunk message whose claimed digest is not the digest of its       *)
(* payload is answered with the error "checksum mismatch chunk <i>" for its *)
(* index i and with nothing else (no progress event), and leaves every      *)
(* buffer (so the received-count) and every record (status, totalChunks)    *)
(* as before the message.                                                   *)
C23_ChunkMismatchNamesIndexKeepsState ==
    [][(last'.sess = Uploader /\ last'.type = "chunk" /\ last'.id # NoID) =>
          \A req \in {r \in MismatchedChunks : r.id = last'.id} :
             handleChunk(Uploader, TRUE, req) =>
                /\ out' = <<[type |-> "error", text |-> "checksum mismatch chunk %d",
                             arg |-> {req.index}]>>
                /\ chunks' = chunks
                /\ records' = records]_vars

(* the first chunk of an upload was refused for its digest: the buffer is   *)
(* still empty and the record still pending                                 *)
C23_Witness ==
    /\ last.type = "chunk"
    /\ Len(out) = 1 /\ out[1].type = "error"
    /\ out[1].text = "checksum mismatch chunk %d"
    /\ last.id \in DOMAIN chunks[Uploader]
    /\ chunks[Uploader][last.id] = EmptyMap
    /\ records[last.id].status = "pending"

(* C24: a chunk message for an upload id the session holds no buffer for    *)
(* (no init was served for the id, the init was served on another           *)
(* connection, or the upload was completed and its buffer dropped) is       *)
(* answered with one error event, makes no buffer for the id, and changes   *)
(* no buffer and no record.                                                 *)
C24_ChunkWithoutBufferRefused ==
    [][\A s \in Sessions :
          (/\ last'.sess = s
           /\ last'.type = "chunk"
           /\ last'.id # NoID
           /\ last'.id \notin DOMAIN chunks[s]) =>
             /\ Len(out') = 1 /\ out'[1].type = "error"
             /\ last'.id \notin DOMAIN chunks'[s]
             /\ chunks' = chunks
             /\ records' = records]_vars

(* a chunk for an upload that another connection holds a buffer for, with   *)
(* a chunk in it, was refused                                               *)
C24_Witness ==
    /\ last.type = "chunk"
    /\ last.sess \in Sessions \ {Uploader}
    /\ out = <<[type |-> "error", text |-> "unknown file_upload_id - send init first",
                arg |-> {}]>>
    /\ last.id \in DOMAIN chunks[Uploader]
    /\ DOMAIN chunks[Uploader][last.id] # {}
    /\ last.id \notin DOMAIN chunks[last.sess]

(* C25: a complete for a record the caller owns, served while the session   *)
(* holds a buffer for it with no chunk in it, is answered with the error    *)
(* "no chunks received": the record keeps its status, no file is created,   *)
(* and the buffer stays, empty, and takes the chunks sent after it.         *)
C25_CompleteOfEmptyBufferRefused ==
    [][/\ \A id \in DOMAIN records :
             (/\ last'.type = "complete" /\ last'.id = id
              /\ records[id].owner = uid[Uploader]
              /\ id \in DOMAIN chunks[Uploader]
              /\ chunks[Uploader][id] = EmptyMap
              /\ CompleteBegin(Uploader, TRUE, id)) =>
                /\ out' = <<[type |-> "error", text |-> "no chunks received",
                             arg |-> {}]>>
                /\ records' = records
                /\ fs' = fs
                /\ chunks' = chunks
                /\ frame'[Uploader] = NoFrame
       /\ (/\ last'.type = "chunk"
           /\ last'.id \in DOMAIN chunks[Uploader]
           /\ chunks[Uploader][last'.id] = EmptyMap) =>
             \A req \in AcceptableChunks :
                (req.id = last'.id /\ handleChunk(Uploader, TRUE, req)) =>
                   chunks'[Uploader][req.id] =
                      (req.index :> Base64Decode(req.data).bytes)]_vars

(* init, then complete at once: refused, nothing on disk, record pending *)
C25_Witness ==
    /\ last.type = "complete" /\ last.fin
    /\ out = <<[type |-> "error", text |-> "no chunks received", arg |-> {}]>>
    /\ last.id \in DOMAIN records
    /\ records[last.id].status = "pending"
    /\ last.id \in DOMAIN chunks[Uploader]
    /\ chunks[Uploader][last.id] = EmptyMap
    /\ fs = EmptyMap

(* C26: the step that closes a connection drops every buffer of the session *)
(* and changes neither the records nor the file system; and a record that   *)
(* no session holds a buffer for is changed by no step, so an upload left   *)
(* in uploading by a closed connection stays uploading.                     *)
C26_CloseDropsBuffersWritesNothing ==
    [][/\ \A s \in Sessions :
             (last'.type = "disconnect" /\ last'.sess = s) =>
                /\ chunks'[s] = EmptyMap
                /\ records' = records
                /\ fs' = fs
       /\ \A id \in DOMAIN records :
             (\A t \in Sessions : id \notin DOMAIN chunks[t]) =>
                records'[id] = records[id]]_vars

(* the connection that held the chunks of an upload is closed, the record   *)
(* is still uploading, and the complete the same user sent on a new         *)
(* connection was refused                                                   *)
C26_Witness ==
    /\ open[Uploader] = "closed"
    /\ last.type = "complete" /\ last.sess = Successor
    /\ last.id \in DOMAIN records
    /\ records[last.id].status = "uploading"
    /\ records[last.id].owner = uid[Successor]
    /\ out = <<[type |-> "error", text |-> "no chunks received", arg |-> {}]>>

(* C27: a complete for an upload that is completed, its buffer dropped, is  *)
(* answered with the error "upload not found", leaves the connection open,  *)
(* and leaves the record (status, final path) and the stored file as they   *)
(* were.                                                                    *)
C27_CompleteAfterCompletedNotFound ==
    [][\A id \in DOMAIN records :
          (/\ last'.type = "complete" /\ last'.sess = Uploader /\ last'.id = id
           /\ records[id].status = "completed"
           /\ id \notin DOMAIN chunks[Uploader]) =>
             /\ out' = <<[type |-> "error", text |-> "upload not found", arg |-> {}]>>
             /\ open'[Uploader] = "open" /\ frame'[Uploader] = NoFrame
             /\ records'[id] = records[id]
             /\ fs' = fs]_vars

(* C28: the total a complete works with is the totalChunks of the record    *)
(* when that is not zero, and the number of chunks in the buffer only when  *)
(* it is zero; the total it worked with is the totalChunks of the record    *)
(* when the upload becomes completed.                                       *)
C28_EffectiveTotalFrozenElseCount ==
    [][/\ (frame[Uploader].pc = "idle" /\ frame'[Uploader].pc = "loop") =>
             LET id == frame'[Uploader].fu.id IN
             frame'[Uploader].total =
                IF records[id].totalChunks # 0 THEN records[id].totalChunks
                ELSE Cardinality(DOMAIN chunks[Uploader][id])
       /\ \A id \in DOMAIN records :
             BecomesCompleted(id) =>
                records'[id].totalChunks = frame[Uploader].total]_vars

(* the loop of a complete has run to the end with the number of chunks in   *)
(* the buffer as total, the record holding totalChunks 0                    *)
C28_Witness ==
    /\ frame[Uploader].pc = "loop"
    /\ records[frame[Uploader].fu.id].totalChunks = 0
    /\ frame[Uploader].total = Cardinality(DOMAIN chunks[Uploader][frame[Uploader].fu.id])
    /\ frame[Uploader].total > 0
    /\ frame[Uploader].i = frame[Uploader].total

(* C29: an init that is answered with init_ack has added exactly one record *)
(* under an id no record had before, with status pending, the owner of the  *)
(* session, totalChunks 0 and the name, size and digest of the message, and *)
(* an empty buffer under that id in the serving session only; the           *)
(* init_ack carries the id.  An init served while the store refuses the     *)
(* record is answered with an error and adds no record and no buffer.  The  *)
(* owner of a session does not change while the connection is open.         *)
C29_InitCreatesOnePendingRecord ==
    [][\A s \in Sessions :
          /\ \A req \in InitRequests :
                handleInit(s, TRUE, req) =>
                   IF ~storeDown
                   THEN LET id == last'.id IN
                        /\ id \notin DOMAIN records
                        /\ DOMAIN records' = DOMAIN records \cup {id}
                        /\ \A j \in DOMAIN records : records'[j] = records[j]
                        /\ records'[id].status = "pending"
                        /\ records'[id].owner = uid[s]
                        /\ records'[id].totalChunks = 0
                        /\ records'[id].name = req.name
                        /\ records'[id].size = req.size
                        /\ records'[id].checksum = req.checksum
                        /\ id \notin DOMAIN chunks[s]
                        /\ chunks' = [chunks EXCEPT ![s] = Put(@, id, EmptyMap)]
                        /\ out' = <<[type |-> "init_ack", id |-> id, name |-> req.name]>>
                   ELSE /\ Len(out') = 1 /\ out'[1].type = "error"
                        /\ records' = records
                        /\ chunks' = chunks
          /\ (open[s] = "open" /\ open'[s] = "open") => uid'[s] = uid[s]]_vars

(* two uploads of different owners exist, the second just created: it is   *)
(* pending, owned by the user of the session that asked for it, and that    *)
(* session holds an empty buffer for it                                     *)
C29_Witness ==
    /\ last.type = "init"
    /\ Len(out) = 1 /\ out[1].type = "init_ack" /\ out[1].id = 2
    /\ DOMAIN records = {1, 2}
    /\ records[1].owner # records[2].owner
    /\ records[2].status = "pending"
    /\ records[2].owner = uid[last.sess]
    /\ chunks[last.sess] = (2 :> EmptyMap)

(* C30: in every state a record carries a final path only when its status  *)
(* is completed: a pending, uploading or failed record has none.            *)
C30_PathOnlyWhenCompleted ==
    \A id \in DOMAIN records :
       records[id].filePath # NoPath => records[id].status = "completed"

(* a complete failed the digest test: the file it wrote is on the disk, the *)
(* record is failed and carries no path                                     *)
C30_Witness ==
    \E id \in DOMAIN records :
       /\ records[id].status = "failed"
       /\ records[id].filePath = NoPath
       /\ OutPath(records[id].owner, records[id]) \in DOMAIN fs

(* ---------------------------------------------------------------------- *)
(* chunk_index is a signed int: json.Unmarshal takes a negative value      *)
(* ---------------------------------------------------------------------- *)
NegativeIndex == -1
NegativeIndexChunks ==
    {[r EXCEPT !.index = NegativeIndex] : r \in AcceptableChunks}

(* One connection whose chunk messages pass the digest test and carry any  *)
(* chunk_index the message type can hold, negative ones included.          *)
NextSigned ==
    \/ Connect(Uploader, SessionUser(Uploader))
    \/ \E req \in InitRequests :
          nextID <= MaxUploads /\ handleInit(Uploader, TRUE, req)
    \/ \E req \in AcceptableChunks : handleChunk(Uploader, TRUE, req)
    \/ \E req \in NegativeIndexChunks : handleChunk(Uploader, TRUE, req)
    \/ \E id \in UploadIDs : CompleteBegin(Uploader, TRUE, id)
    \/ CompleteLoop(Uploader)
    \/ CompleteVerify(Uploader)

SpecSigned == Init /\ [][NextSigned]_vars

(* C31: every key of every buffer is a chunk index >= 0, the received-count *)
(* of a progress event counts such keys only, and so does the total a       *)
(* complete falls back to when the record holds totalChunks 0.              *)
C31_BufferKeysNonNegative ==
    /\ \A s \in Sessions : \A id \in DOMAIN chunks[s] :
          \A i \in DOMAIN chunks[s][id] : i >= 0
    /\ \A k \in 1..Len(out) :
          out[k].type = "progress" =>
             out[k].uploaded =
                Cardinality({i \in DOMAIN BufferOf(chunks[last.sess], out[k].id) : i >= 0})
    /\ \A s \in Sessions :
          frame[s].pc = "loop" =>
             (records[frame[s].fu.id].totalChunks = 0 =>
                frame[s].total =
                   Cardinality({i \in DOMAIN BufferOf(chunks[s], frame[s].fu.id) : i >= 0}))

(* ---------------------------------------------------------------------- *)
(* The client of one file on its own connection: uploadOneFile and         *)
(* sendAndWait.  client.unanswered holds the requests sent and not yet     *)
(* answered; the event the server wrote last is in out until the message   *)
(* listener takes it.  The server reads the next request when the reply to *)
(* the one before has left the socket.                                     *)
(* ---------------------------------------------------------------------- *)
NoMessage == Served(0, "none", NoID, TRUE)

(* the state of uploadOneFile after openWS has resolved *)
StartOfUpload ==
    [pc |-> "init", waiting |-> FALSE, i |-> 0, id |-> NoID, acks |-> 0,
     unanswered |-> <<>>, rejected |-> FALSE]

(* the payload of the sendAndWait call uploadOneFile is at *)
Payload(c) ==
    IF c.pc = "init" THEN [type |-> "init", data |-> ClientInitRequest(task)]
    ELSE IF c.pc = "chunk"
    THEN [type |-> "chunk",
          data |-> ClientChunkRequest(task, c.id, c.i, Slice(task, c.i))]
    ELSE [type |-> "complete", data |-> c.id]

(* and its acceptTypes *)
AcceptTypes(c) ==
    IF c.pc = "init" THEN {"init_ack"}
    ELSE IF c.pc = "chunk" THEN {"progress"}
    ELSE {"done"}

(* ws.addEventListener('message', handler); ws.send(JSON.stringify(payload)) *)
sendAndWait ==
    /\ client.pc \in {"init", "chunk", "complete"}
    /\ ~client.waiting
    /\ client' = [client EXCEPT !.waiting = TRUE,
                                !.unanswered = Append(@, Payload(client))]
    /\ UNCHANGED <<open, uid, chunks, frame, records, nextID, fs, out, last, storedBy,
                   task, storeDown, chunkRows,
                   wsMu, wsClients, running>>

(* if (t === 'error') { ...; reject(...) } *)
RejectsNothing(t) == FALSE
Rejects(t) == t = "error"

(* The promise resolved: uploadOneFile goes on to its next await; after    *)
(* the last one the finally block closes the socket.                       *)
Resolved(c, msg) ==
    IF c.pc = "init"
    THEN [c EXCEPT !.pc = "chunk", !.waiting = FALSE, !.id = msg.id, !.i = 0]
    ELSE IF c.pc = "chunk"
    THEN [c EXCEPT !.pc = IF c.i + 1 < TotalChunksOf(task) THEN "chunk" ELSE "complete",
                   !.waiting = FALSE, !.i = c.i + 1, !.acks = c.acks + 1]
    ELSE [c EXCEPT !.pc = "closed", !.waiting = FALSE]

(* The promise rejected: the exception leaves the try block, the finally   *)
(* block closes the socket.                                                *)
Rejected(c) == [c EXCEPT !.pc = "closed", !.waiting = FALSE, !.rejected = TRUE]

(* the message listener of sendAndWait takes the event off the socket *)
handler ==
    /\ client.pc \in {"init", "chunk", "complete"}
    /\ client.waiting
    /\ Len(out) = 1
    /\ LET msg == out[1]
           c == [client EXCEPT !.unanswered = Tail(@)]
       IN client' = IF Rejects(msg.type) THEN Rejected(c)
                    ELSE IF msg.type \in AcceptTypes(client) THEN Resolved(c, msg)
                    ELSE c
    /\ out' = <<>>
    /\ last' = NoMessage
    /\ UNCHANGED <<open, uid, chunks, frame, records, nextID, fs, storedBy, task,
                   storeDown, chunkRows,
                   wsMu, wsClients, running>>

(* HandleUpload reads the oldest request that is still unread *)
Unread == client.unanswered # <<>> /\ out = <<>> /\ last.fin
Request == Head(client.unanswered)

InitStopWait ==
    /\ open = [s \in Sessions |-> IF s = Uploader THEN "open" ELSE "new"]
    /\ uid = [s \in Sessions |-> IF s = Uploader THEN SessionUser(s) ELSE NoUser]
    /\ chunks = [s \in Sessions |-> EmptyMap]
    /\ frame = [s \in Sessions |-> NoFrame]
    /\ records = EmptyMap
    /\ nextID = 1
    /\ fs = EmptyMap
    /\ out = <<>>
    /\ last = Served(Uploader, "connect", NoID, TRUE)
    /\ storedBy = [s \in Sessions |-> EmptyMap]
    /\ task \in Tasks
    /\ storeDown = FALSE
    /\ chunkRows = EmptyMap
    /\ client = StartOfUpload
    /\ wsMu = Unlocked
    /\ wsClients = EmptyMap
    /\ running = NotRunning

(* uploadOneFile against the server, whose store fails and recovers; the   *)
(* server sees the close of the socket at its next ReadMessage.            *)
NextStopWait ==
    \/ sendAndWait
    \/ handler
    \/ Unread /\ Request.type = "init" /\ handleInit(Uploader, TRUE, Request.data)
    \/ Unread /\ Request.type = "chunk" /\ handleChunk(Uploader, TRUE, Request.data)
    \/ Unread /\ Request.type = "complete" /\ CompleteBegin(Uploader, TRUE, Request.data)
    \/ CompleteLoop(Uploader)
    \/ CompleteVerify(Uploader)
    \/ client.pc = "closed" /\ Disconnect(Uploader)
    \/ StoreFails
    \/ StoreRecovers

SpecStopWait == InitStopWait /\ [][NextStopWait]_vars

(* C32: uploadOneFile has at most one request unanswered; it sends the      *)
(* chunk of index i when it has received i progress events and complete     *)
(* when it has received one for every chunk; an error event rejects the     *)
(* step that waits, after which the socket is closed and no message is      *)
(* sent.                                                                    *)
C32_StopAndWait ==
    [][/\ Len(client'.unanswered) <= 1
       /\ sendAndWait =>
             LET m == Payload(client) IN
             /\ client.unanswered = <<>>
             /\ m.type = "chunk" => m.data.index = client.acks
             /\ m.type = "complete" => client.acks = TotalChunksOf(task)
       /\ (client.waiting /\ Len(out) = 1 /\ out[1].type = "error" /\ client' # client) =>
             (client'.rejected /\ client'.pc = "closed")
       /\ client.pc = "closed" =>
             (client' = client /\ ~(last'.type \in MessageTypes /\ last' # last))]_vars

(* the complete of a file of two chunks was answered with an error: the    *)
(* upload is rejected, two progress events were received, nothing is       *)
(* unanswered and the server has seen the socket close                     *)
C32_Witness ==
    /\ client.pc = "closed" /\ client.rejected
    /\ client.acks = 2
    /\ client.unanswered = <<>>
    /\ open[Uploader] = "closed"

(* ---------------------------------------------------------------------- *)
(* The REST client: FileUploadService.uploadFile, uploadChunks and         *)
(* completeUpload, against InitUpload, UploadChunk and CompleteUpload.     *)
(* A request is posted, served and settled in three steps; a request or    *)
(* its response can be lost, which axios reports as an error.  The         *)
(* periodic verifyUploadedChunks runs after every tenth chunk: the files   *)
(* here have fewer chunks and it never runs.                               *)
(* ---------------------------------------------------------------------- *)
maxRetries == 3

(* Math.ceil(file.size / CHUNK_SIZE): zero for an empty file *)
RestTotalChunks(t) == (Len(t.file) + t.size - 1) \div t.size

(* uploadFile before its first request *)
StartOfRestUpload(u) ==
    [pc |-> "init", user |-> u, id |-> NoID, i |-> 0, uploaded |-> {},
     retryCount |-> 0, passes |-> 0, acked |-> {}]

RestInitRequestOf(t) ==
    [name |-> CHOOSE n \in FileNames : TRUE, size |-> Len(t.file), folder |-> NoFolder,
     checksum |-> Sha256Hex(t.file), total |-> RestTotalChunks(t)]

(* the form uploadChunks posts for index i *)
ChunkFormOf(t, id, i) ==
    [id |-> id, index |-> i, checksum |-> Sha256Hex(Slice(t, i)), data |-> Slice(t, i)]

(* axios resolves on a 2xx status and rejects on every other *)
Resolves(response) == response.code \in {StatusOK, StatusCreated}

(* the client step is taken by the client alone *)
ClientOnly ==
    UNCHANGED <<open, uid, chunks, frame, records, nextID, fs, storedBy, task,
                storeDown, chunkRows,
                wsMu, wsClients, running>>

(* await axios.post(...): the request is on its way *)
Post ==
    /\ client.pc \in {"init", "complete"}
    /\ client' = [client EXCEPT !.pc = IF client.pc = "init" THEN "initWait"
                                       ELSE "completeWait"]
    /\ UNCHANGED <<out, last>>
    /\ ClientOnly

(* while (uploadedChunks.size < totalChunks && retryCount < maxRetries) *)
Continues(c) ==
    Cardinality(c.uploaded) < RestTotalChunks(task) /\ c.retryCount < maxRetries

(* if (uploadedChunks.size < totalChunks) throw *)
ThrowsNever(c) == FALSE
Throws(c) == Cardinality(c.uploaded) < RestTotalChunks(task)

(* the test of the while loop of uploadChunks, and what follows the loop *)
WhileTest ==
    /\ client.pc = "while"
    /\ client' = IF Continues(client)
                 THEN [client EXCEPT !.pc = "for", !.i = 0, !.passes = @ + 1]
                 ELSE IF Throws(client) THEN [client EXCEPT !.pc = "thrown"]
                 ELSE [client EXCEPT !.pc = "complete"]
    /\ UNCHANGED <<out, last>>
    /\ ClientOnly

(* for (let i = 0; i < totalChunks; i++): skip an index already uploaded,  *)
(* post the chunk of any other; after the last index count the retry.      *)
ForStep ==
    /\ client.pc = "for"
    /\ client' =
          IF client.i >= RestTotalChunks(task)
          THEN [client EXCEPT !.pc = "while",
                              !.retryCount = IF Throws(client) THEN @ + 1 ELSE @]
          ELSE IF client.i \in client.uploaded
          THEN [client EXCEPT !.i = @ + 1]
          ELSE [client EXCEPT !.pc = "chunkWait"]
    /\ UNCHANGED <<out, last>>
    /\ ClientOnly

(* the server takes the request the client waits for *)
Posted(pc) == client.pc = pc /\ out = <<>>

(* the promise of the request settles with the response *)
Settled(c, ok, response) ==
    IF c.pc = "initWait"
    THEN (IF ok THEN [c EXCEPT !.pc = "while", !.id = response.body]
          ELSE [c EXCEPT !.pc = "thrown"])
    ELSE IF c.pc = "chunkWait"
    THEN (IF ok THEN [c EXCEPT !.pc = "for", !.i = @ + 1,
                               !.uploaded = @ \cup {c.i}, !.acked = @ \cup {c.i}]
          ELSE [c EXCEPT !.pc = "for", !.i = @ + 1])
    ELSE (IF ok THEN [c EXCEPT !.pc = "done"] ELSE [c EXCEPT !.pc = "thrown"])

Settle ==
    /\ client.pc \in {"initWait", "chunkWait", "completeWait"}
    /\ Len(out) = 1
    /\ client' = Settled(client, Resolves(out[1]), out[1])
    /\ out' = <<>>
    /\ last' = NoMessage
    /\ ClientOnly

(* the request did not reach the server, or its response was lost *)
NetworkError ==
    /\ client.pc \in {"initWait", "chunkWait", "completeWait"}
    /\ client' = Settled(client, FALSE, <<>>)
    /\ out' = <<>>
    /\ last' = NoMessage
    /\ ClientOnly

InitRestClient ==
    /\ open = [s \in Sessions |-> "new"]
    /\ uid = [s \in Sessions |-> NoUser]
    /\ chunks = [s \in Sessions |-> EmptyMap]
    /\ frame = [s \in Sessions |-> NoFrame]
    /\ records = EmptyMap
    /\ nextID = 1
    /\ fs = EmptyMap
    /\ out = <<>>
    /\ last = NoMessage
    /\ storedBy = [s \in Sessions |-> EmptyMap]
    /\ task \in Tasks
    /\ storeDown = FALSE
    /\ chunkRows = EmptyMap
    /\ client \in {StartOfRestUpload(u) : u \in Users}
    /\ wsMu = Unlocked
    /\ wsClients = EmptyMap
    /\ running = NotRunning

NextRestClient ==
    \/ Post
    \/ WhileTest
    \/ ForStep
    \/ Settle
    \/ NetworkError
    \/ Posted("initWait")
          /\ InitUpload(client.user, RestTotalChunks(task) # 0, RestInitRequestOf(task))
    \/ Posted("chunkWait")
          /\ UploadChunk(client.user, TRUE, ChunkFormOf(task, client.id, client.i))
    \/ Posted("completeWait") /\ CompleteUpload(client.user, TRUE, client.id)

(* Every request settles (with a response or an error) and the event loop  *)
(* runs every continuation.                                                *)
SpecRestClient ==
    InitRestClient /\ [][NextRestClient]_vars /\ WF_vars(NextRestClient)

AllIndexes == 0..(RestTotalChunks(task) - 1)

(* C33: uploadChunks makes at most maxRetries passes and ends; it returns   *)
(* (uploadFile goes on to completeUpload) only when the server has          *)
(* acknowledged, and holds, the chunk of every index of [0, totalChunks),   *)
(* it throws otherwise, and CompleteUpload is served only then.             *)
C33_UploadChunksEndsAllAcked ==
    /\ [](/\ client.passes <= maxRetries
          /\ client.retryCount <= maxRetries
          /\ (client.pc \in {"complete", "completeWait", "done"}
                 \/ last.type = "CompleteUpload") =>
                /\ AllIndexes \subseteq client.acked
                /\ AllIndexes \subseteq DOMAIN RowsOf(chunkRows, client.id))
    /\ [][(client.pc = "while" /\ ~Continues(client)) =>
             (client'.pc = "thrown") = (AllIndexes \ client.acked # {})]_vars
    /\ <>(client.pc \in {"done", "thrown"})

(* a file of two chunks was uploaded in the last pass allowed, after two    *)
(* passes that left a chunk unacknowledged, and the upload is completed     *)
C33_Witness ==
    /\ client.pc = "done"
    /\ client.passes = maxRetries
    /\ RestTotalChunks(task) = 2
    /\ records[client.id].status = "completed"

(* C34: in every state the file at the path of a completed record exists    *)
(* and holds bytes with the digest the record declares, whatever uploads    *)
(* the same owner starts under the same name afterwards or meanwhile.       *)
C34_CompletedFileKeepsDigest ==
    \A id \in DOMAIN records :
       records[id].status = "completed" =>
          /\ records[id].filePath \in DOMAIN fs
          /\ Sha256Hex(fs[records[id].filePath]) = records[id].checksum

(* ---------------------------------------------------------------------- *)
(* file_name and rel_path are taken from the init message as they are      *)
(* ---------------------------------------------------------------------- *)
TraversalInitRequests ==
    [name : {TraversalName}, size : FileSizes, relPath : RelPaths, folder : FolderIDs,
     checksum : FileChecksums]

(* One connection that uploads under a plain name or under a name with a   *)
(* ".." element.                                                           *)
NextTraversal ==
    \/ Connect(Uploader, SessionUser(Uploader))
    \/ \E req \in InitRequests :
          nextID <= MaxUploads /\ handleInit(Uploader, TRUE, req)
    \/ \E req \in TraversalInitRequests :
          nextID <= MaxUploads /\ handleInit(Uploader, TRUE, req)
    \/ \E req \in PairChunkRequests : handleChunk(Uploader, TRUE, req)
    \/ \E id \in UploadIDs : CompleteBegin(Uploader, TRUE, id)
    \/ CompleteLoop(Uploader)
    \/ CompleteVerify(Uploader)

SpecTraversal == Init /\ [][NextTraversal]_vars

(* the path lies inside the directory *)
Inside(path, dir) ==
    Len(path) > Len(dir) /\ SubSeq(path, 1, Len(dir)) = dir

(* C35: the output path a complete resolves lies inside the directory of    *)
(* the owner of the session, and every file a step of a session creates,    *)
(* truncates or writes lies inside the directory of its owner.              *)
C35_OutputPathInsideOwnerDir ==
    [][\A s \in Sessions :
          (last'.sess = s /\ last'.type = "complete") =>
             /\ frame'[s].pc = "loop" => Inside(frame'[s].outPath, UserDir(uid[s]))
             /\ \A p \in DOMAIN fs' :
                   (p \notin DOMAIN fs \/ fs'[p] # fs[p]) => Inside(p, UserDir(uid[s]))]_vars

(* ---------------------------------------------------------------------- *)
(* The REST requests on a record while it is uploaded: FileHandler         *)
(* MoveFile, ToggleStar, TrashFile and RestoreFile.  Each is one step:     *)
(* UpdateFolderID and UpdateTrashed write one column, ToggleStar saves the *)
(* row it has read.                                                        *)
(* ---------------------------------------------------------------------- *)
StatusNoContent == 204
OtherFolder == 1
MoveTargets == {NoFolder, OtherFolder}

(* GetByID and the owner test the four handlers start with *)
Refusal(u, id) ==
    IF id \notin DOMAIN records THEN Respond(StatusNotFound, "file not found")
    ELSE Respond(StatusForbidden, "forbidden")
Admitted(u, id) == id \in DOMAIN records /\ OwnerOK(records[id], u)

(* the request changes the record, or is refused, and touches nothing else *)
RestOnRecord(u, type, id, changed, response) ==
    /\ frame' = frame
    /\ last' = Requested(u, type, id)
    /\ IF Admitted(u, id)
       THEN records' = Put(records, id, changed) /\ out' = <<response>>
       ELSE records' = records /\ out' = <<Refusal(u, id)>>
    /\ UNCHANGED <<open, uid, chunks, nextID, fs, storedBy, task, storeDown, chunkRows,
                   client,
                   wsMu, wsClients, running>>

MoveFile(u, id, folderID) ==
    LET file == [records[id] EXCEPT !.folder = folderID]
    IN RestOnRecord(u, "MoveFile", id, file, Respond(StatusOK, file))

ToggleStar(u, id) ==
    LET file == [records[id] EXCEPT !.starred = ~@]
    IN RestOnRecord(u, "ToggleStar", id, file, Respond(StatusOK, file))

TrashFile(u, id) ==
    RestOnRecord(u, "TrashFile", id, [records[id] EXCEPT !.trashed = TRUE],
                 Respond(StatusNoContent, ""))

RestoreFile(u, id) ==
    LET file == [records[id] EXCEPT !.trashed = FALSE]
    IN RestOnRecord(u, "RestoreFile", id, file, Respond(StatusOK, file))

(* One connection uploads while its user moves, stars, trashes and         *)
(* restores the records over REST, also between the steps of a             *)
(* handleComplete.                                                         *)
NextManage ==
    \/ Connect(Uploader, SessionUser(Uploader))
    \/ \E req \in InitRequests :
          nextID <= MaxUploads /\ handleInit(Uploader, TRUE, req)
    \/ \E req \in PairChunkRequests : handleChunk(Uploader, TRUE, req)
    \/ \E id \in UploadIDs : CompleteBegin(Uploader, TRUE, id)
    \/ CompleteLoop(Uploader)
    \/ CompleteVerify(Uploader)
    \/ \E id \in UploadIDs, f \in MoveTargets : MoveFile(SessionUser(Uploader), id, f)
    \/ \E id \in UploadIDs : ToggleStar(SessionUser(Uploader), id)
    \/ \E id \in UploadIDs : TrashFile(SessionUser(Uploader), id)
    \/ \E id \in UploadIDs : RestoreFile(SessionUser(Uploader), id)

SpecManage == Init /\ [][NextManage]_vars

(* C36: no step of a chunk or complete handler changes the folder, the      *)
(* star or the trash flag of a record: what a REST request wrote after the  *)
(* handler read the record is in the store when the handler has saved it.   *)
C36_RestUpdateSurvivesUpload ==
    [][last'.type \in {"chunk", "complete"} =>
          \A id \in DOMAIN records :
             /\ records'[id].trashed = records[id].trashed
             /\ records'[id].folder = records[id].folder
             /\ records'[id].starred = records[id].starred]_vars

(* ---------------------------------------------------------------------- *)
(* UploadChunk requests served at the same time.  Each request runs in its *)
(* own goroutine, one per element of Sessions, and keeps its locals in     *)
(* frame: GetChunk is one query, the UpdateChunk or CreateChunk that       *)
(* follows is another, and other requests run in between.                  *)
(* ---------------------------------------------------------------------- *)
HonestForms == {f \in RestChunkForms : Verify(f.data, f.checksum)}

(* UploadChunk up to existing, err := h.repo.GetChunk(fileID, idx) *)
UploadChunkFind(s, u, form) ==
    /\ frame[s] = NoFrame
    /\ frame' = [frame EXCEPT ![s] =
          [pc |-> "save", user |-> u, form |-> form,
           existing |-> GetChunk(chunkRows, form.id, form.index)]]
    /\ out' = <<>>
    /\ last' = [Requested(u, "UploadChunk", form.id) EXCEPT !.fin = FALSE]
    /\ UNCHANGED <<open, uid, chunks, records, nextID, fs, storedBy, task, storeDown,
                   chunkRows, client,
                   wsMu, wsClients, running>>

(* UploadChunk from there to its response *)
UploadChunkSave(s) ==
    /\ frame[s].pc = "save"
    /\ LET form == frame[s].form IN
       /\ chunkRows' =
             SaveChunk(chunkRows, frame[s].existing,
                       VerifiedChunk(form.id, form.index, form.data, form.checksum))
       /\ records' = RestMarkUploading(records, form.id)
       /\ out' = <<Respond(StatusOK, form.index)>>
       /\ last' = Requested(frame[s].user, "UploadChunk", form.id)
    /\ frame' = [frame EXCEPT ![s] = NoFrame]
    /\ UNCHANGED <<open, uid, chunks, nextID, fs, storedBy, task, storeDown, client,
                   wsMu, wsClients, running>>

(* the requests of one user: the owner of the uploads *)
Owner == SessionUser(Uploader)
NextRestRace ==
    \/ \E req \in RestInitRequests :
          nextID <= MaxUploads /\ InitUpload(Owner, TRUE, req)
    \/ \E s \in Sessions, form \in HonestForms : UploadChunkFind(s, Owner, form)
    \/ \E s \in Sessions : UploadChunkSave(s)
    \/ \E id \in UploadIDs : CompleteUpload(Owner, TRUE, id)

SpecRestRace == Init /\ [][NextRestRace]_vars

(* C38: in every state the table holds at most one row for an upload and a  *)
(* chunk index, so the rows CompleteUpload counts are as many as the        *)
(* indexes stored.                                                          *)
C38_OneRowPerChunkIndex ==
    \A id \in UploadIDs :
       /\ \A idx \in ChunkIndexes : Cardinality(ChunkKeys(chunkRows, id, idx)) <= 1
       /\ Cardinality(GetChunksByFileID(chunkRows, id))
             = Cardinality(DOMAIN RowsOf(chunkRows, id))

(***************************************************************************)
(* The progress subscribers of the REST build (upload.go lines 564-630).   *)
(* HandleWebSocket runs in the goroutine of its connection,                *)
(* broadcastProgress in a goroutine of its own that UploadChunk (line 461) *)
(* and CompleteUpload (line 515) start with "go".  A Go map is a           *)
(* reference: "clients := h.wsClients[fileID]" names the very set that     *)
(* HandleWebSocket inserts into, so the range loop reads wsClients[id].    *)
(***************************************************************************)
Conn(s) == <<"HandleWebSocket", s>>
Broadcast(b) == <<"broadcastProgress", b>>
(* one broadcastProgress goroutine for the request goroutine of each session *)
Broadcasts == Sessions

(* wsMu.Lock() / wsMu.Unlock() / wsMu.RLock() / wsMu.RUnlock() *)
Lock(g) ==
    /\ wsMu.writer = NoHolder /\ wsMu.readers = {}
    /\ wsMu' = [wsMu EXCEPT !.writer = g]
Unlock(g) ==
    /\ wsMu.writer = g
    /\ wsMu' = [wsMu EXCEPT !.writer = NoHolder]
RLock(g) ==
    /\ wsMu.writer = NoHolder
    /\ wsMu' = [wsMu EXCEPT !.readers = @ \cup {g}]
RUnlock(g) ==
    /\ g \in wsMu.readers
    /\ wsMu' = [wsMu EXCEPT !.readers = @ \ {g}]

(* h.wsClients[id]: a nil map reads as the empty set *)
Subscribers(id) == IF id \in DOMAIN wsClients THEN wsClients[id] ELSE {}

UploadState ==
    UNCHANGED <<open, uid, chunks, frame, records, nextID, fs, out, last, storedBy,
                task, storeDown, chunkRows, client>>

(* HandleWebSocket, lines 570-575: Lock, then the insertion, then Unlock *)
HandleWebSocketLock(s, id) ==
    /\ ~running.fatal
    /\ running.conn[s].pc = "new"
    /\ Lock(Conn(s))
    /\ running' = [running EXCEPT !.conn[s] = [pc |-> "insert", id |-> id]]
    /\ UNCHANGED wsClients
    /\ UploadState

HandleWebSocketInsert(s) ==
    /\ ~running.fatal
    /\ running.conn[s].pc = "insert"
    /\ wsClients' = Put(wsClients, running.conn[s].id,
                        Subscribers(running.conn[s].id) \cup {s})
    /\ Unlock(Conn(s))
    /\ running' = [running EXCEPT !.conn[s].pc = "reading"]
    /\ UploadState

(* lines 587-591 and the deferred function, lines 579-585: ReadMessage fails,
   the loop breaks, Lock, then the deletion, then Unlock *)
HandleWebSocketBreak(s) ==
    /\ ~running.fatal
    /\ running.conn[s].pc = "reading"
    /\ Lock(Conn(s))
    /\ running' = [running EXCEPT !.conn[s].pc = "delete"]
    /\ UNCHANGED wsClients
    /\ UploadState

HandleWebSocketDelete(s) ==
    /\ ~running.fatal
    /\ running.conn[s].pc = "delete"
    /\ wsClients' = Put(wsClients, running.conn[s].id,
                        Subscribers(running.conn[s].id) \ {s})
    /\ Unlock(Conn(s))
    /\ running' = [running EXCEPT !.conn[s].pc = "closed"]
    /\ UploadState

(* broadcastProgress, lines 596-598: RLock, take the reference, RUnlock *)
broadcastProgressRLock(b, id) ==
    /\ ~running.fatal
    /\ running.broadcast[b].pc = "idle"
    /\ RLock(Broadcast(b))
    /\ running' = [running EXCEPT !.broadcast[b] =
                       [pc |-> "rlocked", id |-> id, sent |-> {}, cl |-> 0]]
    /\ UNCHANGED wsClients
    /\ UploadState

(* lines 597-602: the lock is released before len(clients) is read *)
broadcastProgressRUnlock(b) ==
    /\ ~running.fatal
    /\ running.broadcast[b].pc = "rlocked"
    /\ RUnlock(Broadcast(b))
    /\ running' = [running EXCEPT !.broadcast[b].pc =
                       IF Subscribers(running.broadcast[b].id) = {}
                       THEN "idle" ELSE "range"]
    /\ UNCHANGED wsClients
    /\ UploadState

(* lines 622-623: one turn of "for cl := range clients", no lock held; the
   write to the connection succeeds or fails *)
broadcastProgressWriteJSON(b, cl, ok) ==
    /\ ~running.fatal
    /\ running.broadcast[b].pc = "range"
    /\ cl \in Subscribers(running.broadcast[b].id) \ running.broadcast[b].sent
    /\ running' = [running EXCEPT !.broadcast[b] =
                       IF ok THEN [@ EXCEPT !.sent = @ \cup {cl}]
                       ELSE [@ EXCEPT !.pc = "evict", !.cl = cl]]
    /\ UNCHANGED <<wsMu, wsClients>>
    /\ UploadState

(* lines 624-627: on a failed write Lock, delete, Unlock, inside the loop *)
broadcastProgressLock(b) ==
    /\ ~running.fatal
    /\ running.broadcast[b].pc = "evict"
    /\ Lock(Broadcast(b))
    /\ running' = [running EXCEPT !.broadcast[b].pc = "delete"]
    /\ UNCHANGED wsClients
    /\ UploadState

broadcastProgressDelete(b) ==
    /\ ~running.fatal
    /\ running.broadcast[b].pc = "delete"
    /\ wsClients' = Put(wsClients, running.broadcast[b].id,
                        Subscribers(running.broadcast[b].id) \ {running.broadcast[b].cl})
    /\ Unlock(Broadcast(b))
    /\ running' = [running EXCEPT !.broadcast[b] =
                       [@ EXCEPT !.pc = "range", !.sent = @ \cup {running.broadcast[b].cl}]]
    /\ UploadState

(* line 622: the range loop ends when no element is left *)
broadcastProgressReturn(b) ==
    /\ ~running.fatal
    /\ running.broadcast[b].pc = "range"
    /\ Subscribers(running.broadcast[b].id) \ running.broadcast[b].sent = {}
    /\ running' = [running EXCEPT !.broadcast[b].pc = "idle"]
    /\ UNCHANGED <<wsMu, wsClients>>
    /\ UploadState

(* the range loop of b over wsClients[id] has begun and has not ended *)
Ranging(b, id) ==
    /\ running.broadcast[b].pc \in {"range", "evict", "delete"}
    /\ running.broadcast[b].id = id

(* a goroutine other than broadcaster b is at its insertion into or its
   deletion from wsClients[id] *)
Mutating(b, id) ==
    \/ \E s \in Sessions :
          /\ running.conn[s].pc \in {"insert", "delete"}
          /\ running.conn[s].id = id
    \/ \E o \in Broadcasts \ {b} :
          /\ running.broadcast[o].pc = "delete"
          /\ running.broadcast[o].id = id

Races == \E b \in Broadcasts, id \in UploadIDs : Ranging(b, id) /\ Mutating(b, id)

(* the Go runtime may stop the process on an iteration that meets a write
   ("fatal error: concurrent map iteration and map write"), or may not *)
Throw ==
    /\ ~running.fatal
    /\ Races
    /\ running' = [running EXCEPT !.fatal = TRUE]
    /\ UNCHANGED <<wsMu, wsClients>>
    /\ UploadState

NextHub ==
    \/ \E s \in Sessions, id \in UploadIDs : HandleWebSocketLock(s, id)
    \/ \E s \in Sessions : HandleWebSocketInsert(s)
    \/ \E s \in Sessions : HandleWebSocketBreak(s)
    \/ \E s \in Sessions : HandleWebSocketDelete(s)
    \/ \E b \in Broadcasts, id \in UploadIDs : broadcastProgressRLock(b, id)
    \/ \E b \in Broadcasts : broadcastProgressRUnlock(b)
    \/ \E b \in Broadcasts, cl \in Sessions, ok \in BOOLEAN :
          broadcastProgressWriteJSON(b, cl, ok)
    \/ \E b \in Broadcasts : broadcastProgressLock(b)
    \/ \E b \in Broadcasts : broadcastProgressDelete(b)
    \/ \E b \in Broadcasts : broadcastProgressReturn(b)
    \/ Throw

SpecHub == Init /\ [][NextHub]_vars

(* C37: every read, iteration, insertion and deletion on wsClients[id]
   happens while wsMu is held: no range loop of broadcastProgress over the
   set is in progress while another goroutine inserts into it or deletes
   from it. *)
C37_SubscriberSetUnderLock == ~Races

(* ---------------------------------------------------------------------- *)
(* The client that shares one connection: UploadSession.  uploadFile sets  *)
(* a handler in messageHandlers under the key of its step (-1 while it     *)
(* waits for the init_ack, the upload id after) and sends the message;     *)
(* onmessage routes each event to a handler by the event's                 *)
(* file_upload_id.  uploadBatch awaits one uploadFile at a time and closes *)
(* the session when it settles.                                            *)
(* ---------------------------------------------------------------------- *)
TempKey == -1

(* uploadFile after session.open() has resolved *)
StartOfSession ==
    [pc |-> "init", waiting |-> FALSE, i |-> 0, id |-> NoID, acks |-> 0,
     unanswered |-> <<>>, rejected |-> FALSE, messageHandlers |-> {}, onError |-> 0]

(* the key uploadFile sets its handler under *)
HandlerKey(c) == IF c.pc = "init" THEN TempKey ELSE c.id

(* this.messageHandlers.set(key, ...); this.send({...}) *)
uploadFile ==
    /\ client.pc \in {"init", "chunk", "complete"}
    /\ ~client.waiting
    /\ client' = [client EXCEPT !.waiting = TRUE,
                                !.messageHandlers = @ \cup {HandlerKey(client)},
                                !.unanswered = Append(@, Payload(client))]
    /\ UNCHANGED <<open, uid, chunks, frame, records, nextID, fs, out, last, storedBy,
                   task, storeDown, chunkRows,
                   wsMu, wsClients, running>>

(* msg.file_upload_id, or msg.file.id of a done event; an error event      *)
(* (errorMsg: type and message) carries neither                            *)
FileId(msg) ==
    IF msg.type \in {"init_ack", "progress"} THEN msg.id
    ELSE IF msg.type = "done" THEN msg.file.id
    ELSE NoID

(* the key of the handler onmessage calls, NoID when it calls none *)
Route(c, msg) ==
    IF FileId(msg) # NoID /\ FileId(msg) \in c.messageHandlers THEN FileId(msg)
    ELSE IF msg.type = "init_ack" /\ TempKey \in c.messageHandlers THEN TempKey
    ELSE NoID

(* the handler of the step uploadFile is at, called with msg *)
Handle(c, key, msg) ==
    IF msg.type \in AcceptTypes(c)
    THEN Resolved([c EXCEPT !.messageHandlers = @ \ {key}], msg)
    ELSE IF msg.type = "error"
    THEN Rejected([c EXCEPT !.messageHandlers = @ \ {key}])
    ELSE c

(* ws.onmessage takes the event off the socket *)
onmessage ==
    /\ client.pc \in {"init", "chunk", "complete"}
    /\ Len(out) = 1
    /\ LET msg == out[1]
           c == [client EXCEPT !.unanswered = Tail(@),
                               !.onError = IF msg.type = "error" THEN @ + 1 ELSE @]
       IN client' = IF Route(client, msg) = NoID THEN c
                    ELSE Handle(c, Route(client, msg), msg)
    /\ out' = <<>>
    /\ last' = NoMessage
    /\ UNCHANGED <<open, uid, chunks, frame, records, nextID, fs, storedBy, task,
                   storeDown, chunkRows,
                   wsMu, wsClients, running>>

InitSession ==
    /\ open = [s \in Sessions |-> IF s = Uploader THEN "open" ELSE "new"]
    /\ uid = [s \in Sessions |-> IF s = Uploader THEN SessionUser(s) ELSE NoUser]
    /\ chunks = [s \in Sessions |-> EmptyMap]
    /\ frame = [s \in Sessions |-> NoFrame]
    /\ records = EmptyMap
    /\ nextID = 1
    /\ fs = EmptyMap
    /\ out = <<>>
    /\ last = Served(Uploader, "connect", NoID, TRUE)
    /\ storedBy = [s \in Sessions |-> EmptyMap]
    /\ task \in Tasks
    /\ storeDown = FALSE
    /\ chunkRows = EmptyMap
    /\ client = StartOfSession
    /\ wsMu = Unlocked
    /\ wsClients = EmptyMap
    /\ running = NotRunning

(* the steps of the client, of the connection's goroutine on the server,   *)
(* and of the close the server sees at its next ReadMessage                *)
SessionStep ==
    \/ uploadFile
    \/ onmessage
    \/ Unread /\ Request.type = "init" /\ handleInit(Uploader, TRUE, Request.data)
    \/ Unread /\ Request.type = "chunk" /\ handleChunk(Uploader, TRUE, Request.data)
    \/ Unread /\ Request.type = "complete" /\ CompleteBegin(Uploader, TRUE, Request.data)
    \/ CompleteLoop(Uploader)
    \/ CompleteVerify(Uploader)
    \/ client.pc = "closed" /\ Disconnect(Uploader)

NextSession ==
    \/ SessionStep
    \/ StoreFails
    \/ StoreRecovers

(* the event loop runs a handler that is ready and the server's goroutine  *)
(* runs whenever it has a message to read: every step that stays possible  *)
(* is taken; the store fails and recovers at any time or never             *)
SpecSession == InitSession /\ [][NextSession]_vars /\ WF_vars(SessionStep)

(* C39: every uploadFile call of UploadSession eventually settles: when the *)
(* server answers an init, chunk or complete message with an error event,   *)
(* the promise that waits for the step is rejected, so no step waits        *)
(* forever.                                                                 *)
C39_UploadFileSettles == <>(client.pc = "closed")

====
